---- MODULE Spec2Model ----
(***************************************************************************)
(* Model of the g2ngine scene engine: the light slot manager (light.rs),   *)
(* the particle systems with their debounced rebuild (particle_system.rs)  *)
(* the frame loop that drives them (state.rs, app_ui.rs), and the model    *)
(* and material registries with the background model loads (state.rs).     *)
(***************************************************************************)
EXTENDS Integers, Sequences, FiniteSets, TLC

VARIABLES
    light_manager,   \* LightManager: lights, active_mask, dirty
    add_ret,         \* value returned by the most recent add_light call
    scn_pc,          \* position in the add/add/add/remove/add scenario
    scn_in,          \* the light inputs the scenario has used so far
    light_buffer,    \* State::light_buffer: its contents, whether the most
                     \* recent update(), render(), load_world or light
                     \* operation has written it, and whether a light has
                     \* been added, removed or changed since it was written
    particle_system_manager,  \* ParticleSystemManager: grids, spheres, name_to_kind
    is_surface_configured,    \* State::is_surface_configured
    rebuilt,         \* the systems the latest step has rebuilt, each with
                     \* the instance buffer it had before
    burst,           \* per system: the mark_dirty calls of its current burst
                     \* of edits, the rebuilds since the burst began, and
                     \* whether the latest step has called mark_dirty on it
    models,          \* State::models: path -> model
    materials,       \* State::materials: key -> material
    textures,        \* State::textures: the paths of the texture registry
    pending_model_loads,     \* State::pending_model_loads
    in_flight_model_loads,   \* State::in_flight_model_loads
    loaded_model_channel,    \* the messages sent and not yet received, each
                             \* with the path of the load that sent it
    load_workers,    \* per path: the background loads that are running
    create_ret,      \* value returned by the most recent create_material call
    change_ret,      \* value returned by the most recent
                     \* change_material_texture call
    camera,          \* State::camera and State::projection
    clear_color,     \* State::clear_color
    asset_keys,      \* the model path and the material key of the light
                     \* manager, and of the particle systems that have
                     \* other ones than the defaults
    texture_uploads, \* per texture path: the GpuTexture::from_bytes calls
    script_ret,      \* what the most recent call of the script function
                     \* "update" in State::update has come to
    redraw           \* the RedrawRequested handler: the call it makes next,
                     \* what this frame's call of the script function
                     \* "update" returned and whether a warning was logged

lightVars == <<light_manager, add_ret, scn_pc, scn_in, light_buffer>>
frameVars == <<particle_system_manager, is_surface_configured, rebuilt, burst>>
worldVars == <<camera, clear_color, asset_keys, texture_uploads, script_ret,
               redraw>>
loadVars == <<models, materials, textures, pending_model_loads,
              in_flight_model_loads, loaded_model_channel, load_workers,
              create_ret, change_ret, worldVars>>
vars == <<light_manager, add_ret, scn_pc, scn_in, light_buffer,
          particle_system_manager, is_surface_configured, rebuilt, burst,
          models, materials, textures, pending_model_loads,
          in_flight_model_loads, loaded_model_channel, load_workers,
          create_ret, change_ret,
          camera, clear_color, asset_keys, texture_uploads, script_ret,
          redraw>>

(***************************************************************************)
(* Bounds of the model                                                     *)
(***************************************************************************)
\* number of distinct (position, color) inputs offered to add_light; as many
\* further inputs, different from those, are offered to update_light
NumLightValues == 1
\* remove_light/update_light are called on slots 0..MaxSlotArg and on the
\* first index out of range
MaxSlotArg == 0
\* number of distinct light inputs offered to the scenario
NumScenarioValues == 3
\* clock ticks per millisecond
TicksPerMs == 2
\* the UI adds a particle system only while fewer than MaxSystems exist
MaxSystems == 1
\* update_params is called with rows in 1 .. MaxRows, count in 1 .. MaxCount
MaxRows == 4
MaxCount == 3
\* number of distinct values of each float field of the generator params
NumFloatValues == 2
\* number of names under which systems are added to and removed from the
\* particle system manager
NumNames == 2

(***************************************************************************)
(* u32 bit operations used on active_mask                                  *)
(***************************************************************************)
RECURSIVE BitAnd(_, _)
BitAnd(a, b) ==
    IF a = 0 \/ b = 0 THEN 0
    ELSE (a % 2) * (b % 2) + 2 * BitAnd(a \div 2, b \div 2)

RECURSIVE BitOr(_, _)
BitOr(a, b) ==
    IF a = 0 THEN b
    ELSE IF b = 0 THEN a
    ELSE (IF a % 2 = 1 \/ b % 2 = 1 THEN 1 ELSE 0) + 2 * BitOr(a \div 2, b \div 2)

\* a & !b
RECURSIVE BitAndNot(_, _)
BitAndNot(a, b) ==
    IF a = 0 THEN 0
    ELSE (IF a % 2 = 1 /\ b % 2 = 0 THEN 1 ELSE 0) + 2 * BitAndNot(a \div 2, b \div 2)

\* 1 << i
Shl1(i) == 2 ^ i

RECURSIVE count_ones(_)
count_ones(m) == IF m = 0 THEN 0 ELSE (m % 2) + count_ones(m \div 2)

(***************************************************************************)
(* light.rs                                                                *)
(***************************************************************************)
MAX_LIGHTS == 10

Slots == 0 .. (MAX_LIGHTS - 1)

DefaultLight == [position |-> <<0, 0, 0, 0>>, color |-> <<0, 0, 0, 0>>]

None == <<>>
Some(x) == <<x>>

\* LightManager::new
LightManagerNew ==
    [lights |-> [i \in Slots |-> DefaultLight], active_mask |-> 0, dirty |-> FALSE]

\* Light { position: [pos[0], pos[1], pos[2], 1.0], color }
MakeLight(pos, color) == [position |-> <<pos[1], pos[2], pos[3], 1>>, color |-> color]

is_active(self, index) ==
    index < MAX_LIGHTS /\ BitAnd(self.active_mask, Shl1(index)) # 0

num_lights(self) == count_ones(self.active_mask)

\* add_light that evicts slot 0 when the manager is full
RECURSIVE AddLightLoopEvict(_, _, _, _)
AddLightLoopEvict(self, i, pos, color) ==
    IF i >= MAX_LIGHTS
    THEN [self |-> [self EXCEPT !.lights[0] = MakeLight(pos, color), !.dirty = TRUE],
          ret  |-> Some(0)]
    ELSE IF BitAnd(self.active_mask, Shl1(i)) = 0
         THEN [self |-> [lights      |-> [self.lights EXCEPT ![i] = MakeLight(pos, color)],
                         active_mask |-> BitOr(self.active_mask, Shl1(i)),
                         dirty       |-> TRUE],
               ret  |-> Some(i)]
         ELSE AddLightLoopEvict(self, i + 1, pos, color)

\* the loop `for i in i0..MAX_LIGHTS` of add_light; the result is the
\* manager after the call and the returned Option<usize>
RECURSIVE AddLightLoop(_, _, _, _)
AddLightLoop(self, i, pos, color) ==
    IF i >= MAX_LIGHTS THEN [self |-> self, ret |-> None]
    ELSE IF BitAnd(self.active_mask, Shl1(i)) = 0
         THEN [self |-> [lights      |-> [self.lights EXCEPT ![i] = MakeLight(pos, color)],
                         active_mask |-> BitOr(self.active_mask, Shl1(i)),
                         dirty       |-> TRUE],
               ret  |-> Some(i)]
         ELSE AddLightLoop(self, i + 1, pos, color)

\* add_light that takes the number of active lights as the next slot
add_light_at_count(self, pos, color) ==
    LET i == num_lights(self) IN
    IF i >= MAX_LIGHTS THEN [self |-> self, ret |-> None]
    ELSE [self |-> [lights      |-> [self.lights EXCEPT ![i] = MakeLight(pos, color)],
                    active_mask |-> BitOr(self.active_mask, Shl1(i)),
                    dirty       |-> TRUE],
          ret  |-> Some(i)]

add_light(self, pos, color) == AddLightLoop(self, 0, pos, color)

\* remove_light that toggles the bit and does not check the range
remove_light_toggle(self, index) ==
    [self EXCEPT !.active_mask = IF BitAnd(@, Shl1(index)) = 0
                                 THEN BitOr(@, Shl1(index))
                                 ELSE BitAndNot(@, Shl1(index)),
                 !.dirty = TRUE]

\* remove_light that sets dirty but leaves the occupancy bit
remove_light_keep_bit(self, index) ==
    IF index < MAX_LIGHTS THEN [self EXCEPT !.dirty = TRUE] ELSE self

remove_light(self, index) ==
    IF index < MAX_LIGHTS
    THEN [self EXCEPT !.active_mask = BitAndNot(@, Shl1(index)), !.dirty = TRUE]
    ELSE self

\* update_light that checks the range but not the occupancy bit
update_light_any_slot(self, index, pos, color) ==
    IF index < MAX_LIGHTS
    THEN [self EXCEPT !.lights[index] = MakeLight(pos, color), !.dirty = TRUE]
    ELSE self

update_light(self, index, pos, color) ==
    IF is_active(self, index)
    THEN [self EXCEPT !.lights[index] = MakeLight(pos, color), !.dirty = TRUE]
    ELSE self

get_light(self, index) ==
    IF is_active(self, index) THEN Some(self.lights[index]) ELSE None

\* sync_to_gpu that copies slot i to entry i (no compaction)
RECURSIVE SyncLoopNoCompaction(_, _, _, _)
SyncLoopNoCompaction(self, i, gpu_lights, write_idx) ==
    IF i >= MAX_LIGHTS THEN [lights |-> gpu_lights, num_lights |-> write_idx]
    ELSE IF is_active(self, i)
         THEN SyncLoopNoCompaction(self, i + 1,
                                   [gpu_lights EXCEPT ![i] = self.lights[i]], write_idx + 1)
         ELSE SyncLoopNoCompaction(self, i + 1, gpu_lights, write_idx)

\* the loop `for i in i0..MAX_LIGHTS` of sync_to_gpu
RECURSIVE SyncLoop(_, _, _, _)
SyncLoop(self, i, gpu_lights, write_idx) ==
    IF i >= MAX_LIGHTS THEN [lights |-> gpu_lights, num_lights |-> write_idx]
    ELSE IF is_active(self, i)
         THEN SyncLoop(self, i + 1, [gpu_lights EXCEPT ![write_idx] = self.lights[i]],
                       write_idx + 1)
         ELSE SyncLoop(self, i + 1, gpu_lights, write_idx)

sync_to_gpu(self) == SyncLoop(self, 0, [i \in Slots |-> DefaultLight], 0)

clear_dirty(self) == [self EXCEPT !.dirty = FALSE]

\* LightManager::with_lights: new(), then add_light for every entry
RECURSIVE WithLightsLoop(_, _, _)
WithLightsLoop(manager, lights, i) ==
    IF i > Len(lights) THEN manager
    ELSE WithLightsLoop(add_light(manager, lights[i][1], lights[i][2]).self,
                        lights, i + 1)
with_lights(lights) == WithLightsLoop(LightManagerNew, lights, 1)

\* queue.write_buffer(&light_buffer, 0, sync_to_gpu()), and the buffer of a
\* step that does not write it: a light has changed when the occupancy or
\* a stored light differs
WriteLights(self) ==
    [contents |-> sync_to_gpu(self), written |-> TRUE, changed |-> FALSE]
KeepLights(buffer, old, new) ==
    [contents |-> buffer.contents, written |-> FALSE,
     changed  |-> buffer.changed \/ old.active_mask # new.active_mask
                                \/ old.lights # new.lights]

(***************************************************************************)
(* particle_system.rs                                                      *)
(***************************************************************************)
DEBOUNCE_MS == 20

\* An Instant is kept as its distance from the present, in clock ticks:
\* Instant::now() is 0 and the passing of time moves every stored Instant
\* further away, up to one debounce window, from where on all Instants
\* behave alike.
InstantNow == 0
Window == DEBOUNCE_MS * TicksPerMs
\* Instant::elapsed().as_millis()
elapsed_as_millis(instant) == instant \div TicksPerMs

Min(a, b) == IF a < b THEN a ELSE b

\* A buffer object is known by its label and a serial number that tells it
\* from the other buffers created under the same label.
BufferId(buffer) == <<buffer.label, buffer.serial>>

\* device.create_buffer_init: a buffer object that is none of the live ones
create_buffer_init(label, live, contents) ==
    [label  |-> label,
     serial |-> CHOOSE i \in 0 .. Cardinality(live) :
                    <<label, i>> \notin {BufferId(b) : b \in live},
     len    |-> Len(contents)]

\* format!("Grid System '{}' Instance Buffer", name), and the same for spheres
GridLabel(name) == <<"Grid System", name>>
SphereLabel(name) == <<"Sphere System", name>>

\* grid_instance with the displacement (rows - 1) / 2
grid_instance_cell_centered(x, z, rows) ==
    LET position2 == <<2 * x - (rows - 1), 0, 2 * z - (rows - 1)>>
        magnitude2_x4 == position2[1] * position2[1] + position2[2] * position2[2]
                             + position2[3] * position2[3]
    IN [position2 |-> position2,
        identity_rotation |-> 1000 * magnitude2_x4 < 4]

\* The instance pushed for cell (x, z).  rows as f32 * 0.5 is a whole number
\* of halves, so positions are kept in halves: position2 is twice
\* (x, 0, z) - displacement, and magnitude2() < 0.001 reads
\* 1000 * (four times magnitude2) < 4.
grid_instance(x, z, rows) ==
    LET position2 == <<2 * x - rows, 0, 2 * z - rows>>
        magnitude2_x4 == position2[1] * position2[1] + position2[2] * position2[2]
                             + position2[3] * position2[3]
    IN [position2 |-> position2,
        identity_rotation |-> 1000 * magnitude2_x4 < 4]

\* the inner loop `for z in z..rows` of generate_grid_instances from cell
\* (x, z) on, entered with len instances already pushed: the instances it
\* pushes, up to its break on instances.len() >= count after a push
RECURSIVE GridInnerLoop(_, _, _, _, _)
GridInnerLoop(x, z, rows, count, len) ==
    IF z >= rows THEN <<>>
    ELSE IF len + 1 >= count THEN <<grid_instance(x, z, rows)>>
    ELSE <<grid_instance(x, z, rows)>> \o GridInnerLoop(x, z + 1, rows, count, len + 1)

\* the outer loop `for x in x..rows`, with its break on the same condition
\* after the inner loop
RECURSIVE GridOuterLoop(_, _, _, _)
GridOuterLoop(x, rows, count, len) ==
    IF x >= rows THEN <<>>
    ELSE CHOOSE pushed \in
             {IF len + Len(row) >= count THEN row
              ELSE row \o GridOuterLoop(x + 1, rows, count, len + Len(row)) :
                 row \in {GridInnerLoop(x, 0, rows, count, len)}} : TRUE

\* generate_grid_instances that leaves out the last row of cells
generate_grid_instances_short_rows(count, params) ==
    GridOuterLoop(0, params.rows, count - params.rows, 0)

\* GridParticleSystem::generate_grid_instances
generate_grid_instances(count, params) ==
    GridOuterLoop(0, params.rows, count, 0)

\* GridParticleSystem::new
GridParticleSystemNew(live, name, params) ==
    LET count == params.rows * params.rows
        instances == generate_grid_instances(count, params)
    IN [name            |-> name,
        params          |-> params,
        instance_buffer |-> create_buffer_init(GridLabel(name), live, instances),
        num_instances   |-> Len(instances),
        needs_rebuild   |-> FALSE,
        last_edit_time  |-> InstantNow]

\* generate_sphere_instances whose loop starts at 1
generate_sphere_instances_from_one(params) == [i \in 1 .. params.count - 1 |-> i]

\* generate_sphere_instances: `for i in 0..count` pushes one instance per i
generate_sphere_instances(params) == [i \in 1 .. params.count |-> i - 1]

\* SphereParticleSystem::new
SphereParticleSystemNew(live, name, params) ==
    LET instances == generate_sphere_instances(params)
    IN [name            |-> name,
        params          |-> params,
        instance_buffer |-> create_buffer_init(SphereLabel(name), live, instances),
        num_instances   |-> Len(instances),
        needs_rebuild   |-> FALSE,
        last_edit_time  |-> InstantNow]

\* needs_rebuild with the comparison of the debounce window inverted
needs_rebuild_within_window(self) ==
    self.needs_rebuild /\ elapsed_as_millis(self.last_edit_time) < DEBOUNCE_MS

\* needs_rebuild without the debounce window
needs_rebuild_no_debounce(self) == self.needs_rebuild

\* needs_rebuild that fires once the window has passed, dirty or not
needs_rebuild_ignores_dirty(self) ==
    elapsed_as_millis(self.last_edit_time) >= DEBOUNCE_MS

\* GridParticleSystem::needs_rebuild, SphereParticleSystem::needs_rebuild
needs_rebuild(self) ==
    self.needs_rebuild /\ elapsed_as_millis(self.last_edit_time) >= DEBOUNCE_MS

\* rebuild that keeps the buffer when the instance count is unchanged
grid_rebuild_in_place(self, live) ==
    LET count == self.params.rows * self.params.rows
        instances == generate_grid_instances(count, self.params)
    IN [self EXCEPT !.num_instances = Len(instances),
                    !.instance_buffer = IF Len(instances) = self.instance_buffer.len
                                        THEN self.instance_buffer
                                        ELSE create_buffer_init(
                                                 GridLabel(self.name), live, instances),
                    !.needs_rebuild = FALSE]

\* GridParticleSystem::rebuild; live: the buffers alive when it is called
grid_rebuild(self, live) ==
    LET count == self.params.rows * self.params.rows
        instances == generate_grid_instances(count, self.params)
    IN [self EXCEPT !.num_instances = Len(instances),
                    !.instance_buffer = create_buffer_init(
                                            GridLabel(self.name), live, instances),
                    !.needs_rebuild = FALSE]

\* SphereParticleSystem::rebuild
sphere_rebuild(self, live) ==
    LET instances == generate_sphere_instances(self.params)
    IN [self EXCEPT !.num_instances = Len(instances),
                    !.instance_buffer = create_buffer_init(
                                            SphereLabel(self.name), live, instances),
                    !.needs_rebuild = FALSE]

\* mark_dirty that leaves the timestamp alone
mark_dirty_keeps_time(self) ==
    [self EXCEPT !.needs_rebuild = TRUE]

\* GridParticleSystem::mark_dirty, SphereParticleSystem::mark_dirty
mark_dirty(self) ==
    [self EXCEPT !.needs_rebuild = TRUE, !.last_edit_time = InstantNow]

\* GridParticleSystem::update_params
grid_update_params(self, params) ==
    LET old_rows == self.params.rows
        updated == [self EXCEPT !.params = params]
    IN IF old_rows # updated.params.rows THEN mark_dirty(updated) ELSE updated

\* SphereParticleSystem::update_params
sphere_update_params(self, params) ==
    LET old_count == self.params.count
        updated == [self EXCEPT !.params = params]
    IN IF old_count # updated.params.count THEN mark_dirty(updated) ELSE updated

\* HashMap::insert and HashMap::remove
MapInsert(m, k, v) == [x \in DOMAIN m \cup {k} |-> IF x = k THEN v ELSE m[x]]
MapRemove(m, k) == [x \in DOMAIN m \ {k} |-> m[x]]
EmptyMap == [x \in {} |-> 0]

\* ParticleSystemManager::new
ParticleSystemManagerNew ==
    [grids |-> EmptyMap, spheres |-> EmptyMap, name_to_kind |-> EmptyMap]

add_grid(self, name, system) ==
    [self EXCEPT !.name_to_kind = MapInsert(@, name, "Grid"),
                 !.grids = MapInsert(@, name, system)]

\* add_sphere that also drops a grid stored under the name
add_sphere_exclusive(self, name, system) ==
    [self EXCEPT !.name_to_kind = MapInsert(@, name, "Sphere"),
                 !.grids = MapRemove(@, name),
                 !.spheres = MapInsert(@, name, system)]

add_sphere(self, name, system) ==
    [self EXCEPT !.name_to_kind = MapInsert(@, name, "Sphere"),
                 !.spheres = MapInsert(@, name, system)]

\* remove that leaves name_to_kind alone
remove_keeps_kind(self, name) ==
    IF name \in DOMAIN self.name_to_kind
    THEN IF self.name_to_kind[name] = "Grid"
         THEN [self |-> [self EXCEPT !.grids = MapRemove(@, name)],
               ret  |-> name \in DOMAIN self.grids]
         ELSE [self |-> [self EXCEPT !.spheres = MapRemove(@, name)],
               ret  |-> name \in DOMAIN self.spheres]
    ELSE [self |-> self, ret |-> FALSE]

\* ParticleSystemManager::remove: the manager afterwards and the returned bool
remove(self, name) ==
    IF name \in DOMAIN self.name_to_kind
    THEN LET kind == self.name_to_kind[name]
             taken == [self EXCEPT !.name_to_kind = MapRemove(@, name)]
         IN IF kind = "Grid"
            THEN [self |-> [taken EXCEPT !.grids = MapRemove(@, name)],
                  ret  |-> name \in DOMAIN self.grids]
            ELSE [self |-> [taken EXCEPT !.spheres = MapRemove(@, name)],
                  ret  |-> name \in DOMAIN self.spheres]
    ELSE [self |-> self, ret |-> FALSE]

\* particle_system_manager.remove(&name), the returned bool dropped
manager_remove(self, name) == remove(self, name).self

get_kind(self, name) ==
    IF name \in DOMAIN self.name_to_kind THEN Some(self.name_to_kind[name]) ELSE None
get_grid(self, name) ==
    IF name \in DOMAIN self.grids THEN Some(self.grids[name]) ELSE None
get_sphere(self, name) ==
    IF name \in DOMAIN self.spheres THEN Some(self.spheres[name]) ELSE None
\* the names the iterators grids() and spheres() yield, and all_names()
grids_names(self) == DOMAIN self.grids
spheres_names(self) == DOMAIN self.spheres
all_names(self) == DOMAIN self.name_to_kind

manager_count(self) ==
    Cardinality(DOMAIN self.grids) + Cardinality(DOMAIN self.spheres)

\* the systems of the manager, as <<kind, name>>
SystemKeys(self) ==
    {<<"Grid", n>> : n \in DOMAIN self.grids}
        \cup {<<"Sphere", n>> : n \in DOMAIN self.spheres}

SystemAt(self, key) ==
    IF key[1] = "Grid" THEN self.grids[key[2]] ELSE self.spheres[key[2]]

\* the instance buffers that are alive
LiveBuffers(self) == {SystemAt(self, k).instance_buffer : k \in SystemKeys(self)}

(***************************************************************************)
(* state.rs: the model and material registries and the background loads.   *)
(* A string is the sequence of its pieces; a quote, a slash and the        *)
(* extension ".obj" are pieces of their own and occur in no other piece.   *)
(***************************************************************************)
INITIAL_MODEL_PATH == <<"cube", ".obj">>
DEFAULT_MATERIAL_KEY == <<"default">>
WhitePng == <<"white", ".png">>

\* str::split(sep): the pieces between the separators
RECURSIVE split(_, _)
split(s, sep) ==
    IF \A i \in 1 .. Len(s) : s[i] # sep THEN <<s>>
    ELSE LET i == CHOOSE i \in 1 .. Len(s) :
                     s[i] = sep /\ \A j \in 1 .. i - 1 : s[j] # sep
         IN <<SubSeq(s, 1, i - 1)>> \o split(SubSeq(s, i + 1, Len(s)), sep)

\* Iterator::nth, counted from 0
nth(parts, n) == IF n < Len(parts) THEN Some(parts[n + 1]) ELSE None

\* str::trim_end_matches
RECURSIVE trim_end_matches(_, _)
trim_end_matches(s, suffix) ==
    IF Len(s) > 0 /\ s[Len(s)] = suffix
    THEN trim_end_matches(SubSeq(s, 1, Len(s) - 1), suffix)
    ELSE s

\* file_name.split('/').last().unwrap_or(file_name).trim_end_matches(".obj")
model_name(file_name) ==
    LET parts == split(file_name, "/")
    IN trim_end_matches(parts[Len(parts)], ".obj")

\* format!("Failed to load model '{}': {}", path, e)
load_error_msg(path, e) ==
    <<"Failed to load model ", "'">> \o path \o <<"'", ": ">> \o e

\* error_msg.split('\'').nth(1)
error_path(error_msg) == nth(split(error_msg, "'"), 1)

\* what load_model yields for a file that loads: the model, its materials
\* under the keys "<model name>/<material name>", and the textures it puts
\* into the texture registry
MaterialNames == {"body", "trim"}
LoadedModel(path) == [file |-> path]
LoadedTexture(path) == model_name(path) \o <<".png">>
LoadedMaterials(path) ==
    [key \in {model_name(path) \o <<"/", n>> : n \in MaterialNames} |->
        [name |-> key[Len(key)], texture_path |-> LoadedTexture(path),
         color |-> 1, source |-> "Model"]]

\* load_model: `for mat in obj_materials` uploads the texture of every
\* material, whether or not the same path has been uploaded before
UploadsOfLoad(path, texture_path) ==
    Cardinality({key \in DOMAIN LoadedMaterials(path) :
                    LoadedMaterials(path)[key].texture_path = texture_path})

\* the message of a load that succeeded, and of one that failed
OkMsg(path) ==
    [ok |-> TRUE, path |-> path, loaded_model |-> LoadedModel(path),
     materials |-> LoadedMaterials(path)]
ErrMsg(path, e) == [ok |-> FALSE, error_msg |-> load_error_msg(path, e)]

\* `for (key, material) in materials { self.materials.insert(key, ..) }`
InsertAll(registry, loaded) ==
    [k \in DOMAIN registry \cup DOMAIN loaded |->
        IF k \in DOMAIN loaded THEN loaded[k] ELSE registry[k]]

\* the part of State the load pipeline works on
LoadState(m, mat, inflight) ==
    [models |-> m, materials |-> mat, in_flight_model_loads |-> inflight]

\* the Ok branch that leaves the path in the in-flight set
drain_ok_keeps_in_flight(st, msg) ==
    [st EXCEPT !.materials = InsertAll(@, msg.materials),
               !.models = MapInsert(@, msg.path, msg.loaded_model)]

\* the Ok branch of the drain
drain_ok(st, msg) ==
    [st EXCEPT !.materials = InsertAll(@, msg.materials),
               !.models = MapInsert(@, msg.path, msg.loaded_model),
               !.in_flight_model_loads = @ \ {msg.path}]

\* the Err branch that clears the in-flight set
drain_err_clears_all(st, msg) ==
    [st EXCEPT !.in_flight_model_loads = {}]

\* the Err branch of the drain
drain_err(st, msg) ==
    LET path == error_path(msg.error_msg)
    IN IF path # None
       THEN [st EXCEPT !.in_flight_model_loads = @ \ {path[1]}]
       ELSE st

\* `while let Ok(result) = self.loaded_model_receiver.try_recv()`
RECURSIVE DrainChannel(_, _)
DrainChannel(st, channel) ==
    IF channel = <<>> THEN st
    ELSE LET msg == Head(channel).result
         IN DrainChannel(IF msg.ok THEN drain_ok(st, msg) ELSE drain_err(st, msg),
                         Tail(channel))

\* the pending paths for which a load is dispatched, without the look into
\* the model registry
PathsToDispatchRegistered(st, pending) ==
    {path \in pending : path \notin st.in_flight_model_loads}

\* the pending paths for which a load is dispatched, without the look into
\* the in-flight set
PathsToDispatchUnchecked(st, pending) ==
    {path \in pending : path \notin DOMAIN st.models}

\* the pending paths for which update() dispatches a load.  The paths of the
\* drained set are distinct, so the order of the loop does not matter.
PathsToDispatch(st, pending) ==
    {path \in pending :
        path \notin DOMAIN st.models /\ path \notin st.in_flight_model_loads}

\* create_material: the registry afterwards and the returned value
CustomKey(name) == <<"custom", "/">> \o name
\* create_material that does not look the texture up
create_material_any_texture(registry, registered, name, texture_path, color) ==
    LET material_key == CustomKey(name)
    IN IF material_key \in DOMAIN registry
       THEN [materials |-> registry,
             ret |-> <<"Err", <<"Material ", "'">> \o material_key
                                  \o <<"'", " already exists">>>>]
       ELSE [materials |->
                 MapInsert(registry, material_key,
                           [name |-> name, texture_path |-> texture_path,
                            color |-> color, source |-> "Custom"]),
             ret |-> <<"Ok", material_key>>]

create_material_replaces(registry, registered, name, texture_path, color) ==
    LET material_key == CustomKey(name)
    IN IF texture_path \notin registered
       THEN [materials |-> registry,
             ret |-> <<"Err", <<"Texture ", "'">> \o texture_path
                                  \o <<"'", " not found in registry. Load it first.">>>>]
       ELSE [materials |->
                 MapInsert(registry, material_key,
                           [name |-> name, texture_path |-> texture_path,
                            color |-> color, source |-> "Custom"]),
             ret |-> <<"Ok", material_key>>]

create_material(registry, registered, name, texture_path, color) ==
    LET material_key == CustomKey(name)
    IN IF material_key \in DOMAIN registry
       THEN [materials |-> registry,
             ret |-> <<"Err", <<"Material ", "'">> \o material_key
                                  \o <<"'", " already exists">>>>]
       ELSE IF texture_path \notin registered
       THEN [materials |-> registry,
             ret |-> <<"Err", <<"Texture ", "'">> \o texture_path
                                  \o <<"'", " not found in registry. Load it first.">>>>]
       ELSE [materials |->
                 MapInsert(registry, material_key,
                           [name |-> name, texture_path |-> texture_path,
                            color |-> color, source |-> "Custom"]),
             ret |-> <<"Ok", material_key>>]

\* the error texts of create_material and change_material_texture
TextureNotFound(texture_path) ==
    <<"Err", <<"Texture ", "'">> \o texture_path
                 \o <<"'", " not found in registry. Load it first.">>>>
MaterialNotFound(material_key) ==
    <<"Err", <<"Material ", "'">> \o material_key \o <<"'", " not found">>>>
OkUnit == <<"Ok", <<>>>>

\* change_material_texture that does not look the texture up
change_material_texture_any_path(registry, registered, material_key, new_texture_path) ==
    IF material_key \notin DOMAIN registry
    THEN [materials |-> registry, ret |-> MaterialNotFound(material_key)]
    ELSE [materials |-> [registry EXCEPT
                            ![material_key].texture_path = new_texture_path],
          ret |-> OkUnit]

\* change_material_texture that builds the new material with the default tint
change_material_texture_default_tint(registry, registered, material_key, new_texture_path) ==
    IF material_key \notin DOMAIN registry
    THEN [materials |-> registry, ret |-> MaterialNotFound(material_key)]
    ELSE IF registry[material_key].texture_path = new_texture_path
    THEN [materials |-> registry, ret |-> OkUnit]
    ELSE IF new_texture_path \notin registered
    THEN [materials |-> registry, ret |-> TextureNotFound(new_texture_path)]
    ELSE [materials |->
              MapInsert(registry, material_key,
                        [name |-> registry[material_key].name,
                         texture_path |-> new_texture_path,
                         color |-> 1,
                         source |-> registry[material_key].source]),
          ret |-> OkUnit]

\* State::change_material_texture: the registry afterwards and the returned
\* value.  The texture registry is only read.
change_material_texture(registry, registered, material_key, new_texture_path) ==
    IF material_key \notin DOMAIN registry
    THEN [materials |-> registry, ret |-> MaterialNotFound(material_key)]
    ELSE IF registry[material_key].texture_path = new_texture_path
    THEN [materials |-> registry, ret |-> OkUnit]
    ELSE IF new_texture_path \notin registered
    THEN [materials |-> registry, ret |-> TextureNotFound(new_texture_path)]
    ELSE [materials |->
              MapInsert(registry, material_key,
                        [name |-> registry[material_key].name,
                         texture_path |-> new_texture_path,
                         color |-> registry[material_key].color,
                         source |-> registry[material_key].source]),
          ret |-> OkUnit]

\* is_material_editable that lets System materials be edited
is_material_editable_all(registry, material_key) ==
    material_key \in DOMAIN registry

\* State::is_material_editable and State::is_material_deletable
is_material_editable(registry, material_key) ==
    IF material_key \in DOMAIN registry
    THEN CASE registry[material_key].source = "System" -> FALSE
           [] registry[material_key].source = "Model"  -> TRUE
           [] registry[material_key].source = "Custom" -> TRUE
    ELSE FALSE
is_material_deletable(registry, material_key) ==
    IF material_key \in DOMAIN registry
    THEN registry[material_key].source = "Custom"
    ELSE FALSE

(***************************************************************************)
(* state.rs, defaults.rs: the assets of lights and particle systems, the   *)
(* camera, the clear colour                                                *)
(***************************************************************************)
LIGHT_MODEL_PATH             == INITIAL_MODEL_PATH
LIGHT_MATERIAL_KEY           == DEFAULT_MATERIAL_KEY
PARTICLE_SYSTEM_MODEL_PATH   == INITIAL_MODEL_PATH
PARTICLE_SYSTEM_MATERIAL_KEY == DEFAULT_MATERIAL_KEY
\* LightManager::new: model_path and material_key
TeapotObj     == <<"teapot", ".obj">>
TeapotDefault == <<"teapot", "/", "default">>

\* An f32 that is not zero is sign * m * 2^e with 2^23 <= m < 2^24.
F32(sign, m, e) == [sign |-> sign, m |-> m, e |-> e]
Two12 == 4096
Two22 == 4194304
Two23 == 8388608
Two24 == 16777216

\* the f32 product that truncates where IEEE 754 rounds
f32_mul_truncating(x, y) ==
    IF x.m = 0 \/ y.m = 0 THEN F32(0, 0, 0)
    ELSE LET mid   == (x.m \div Two12) * (y.m % Two12)
                          + (x.m % Two12) * (y.m \div Two12)
             low   == (x.m % Two12) * (y.m % Two12) + (mid % Two12) * Two12
             hi    == (x.m \div Two12) * (y.m \div Two12) + (mid \div Two12)
                          + (low \div Two24)
             lo    == low % Two24
             wide  == hi >= Two23
             q     == IF wide THEN hi ELSE 2 * hi + (lo \div Two23)
         IN F32((x.sign + y.sign) % 2, q, x.e + y.e + (IF wide THEN 24 ELSE 23))

\* x * y in f32: the exact 48-bit product of the mantissas, held in two
\* halves of 24 bits, rounded to 24 bits to nearest, ties to even
f32_mul(x, y) ==
    IF x.m = 0 \/ y.m = 0 THEN F32(0, 0, 0)
    ELSE LET mid   == (x.m \div Two12) * (y.m % Two12)
                          + (x.m % Two12) * (y.m \div Two12)
             low   == (x.m % Two12) * (y.m % Two12) + (mid % Two12) * Two12
             hi    == (x.m \div Two12) * (y.m \div Two12) + (mid \div Two12)
                          + (low \div Two24)
             lo    == low % Two24
             wide  == hi >= Two23
             q     == IF wide THEN hi ELSE 2 * hi + (lo \div Two23)
             r     == IF wide THEN lo ELSE lo % Two23
             half  == IF wide THEN Two23 ELSE Two22
             up    == r > half \/ (r = half /\ q % 2 = 1)
             shift == IF wide THEN 24 ELSE 23
             sign  == (x.sign + y.sign) % 2
         IN IF up /\ q + 1 = Two24
            THEN F32(sign, Two23, x.e + y.e + shift + 1)
            ELSE F32(sign, IF up THEN q + 1 ELSE q, x.e + y.e + shift)

\* f32::to_degrees multiplies by the f32 nearest to 180/pi, and cgmath's
\* Rad::from(Deg) by the f32 nearest to pi/180
PIS_IN_180 == F32(0, 15019745, 0 - 18)
DEG_TO_RAD == F32(0, 9370165, 0 - 29)
to_degrees(rad) == f32_mul(rad, PIS_IN_180)
RadFromDeg(deg) == f32_mul(deg, DEG_TO_RAD)

\* the degrees State::new passes to Camera::new and Projection::new
DegMinus90 == F32(1, 11796480, 0 - 17)
DegMinus20 == F32(1, 10485760, 0 - 19)
Deg45      == F32(0, 11796480, 0 - 18)

\* Camera::new(position, Deg(yaw), Deg(pitch)) and the three assignments to
\* the projection: the angles are kept in radians
CameraNew(position, yaw_deg, pitch_deg, fovy_deg, znear, zfar) ==
    [position |-> position, yaw |-> RadFromDeg(yaw_deg),
     pitch |-> RadFromDeg(pitch_deg), fovy |-> RadFromDeg(fovy_deg),
     znear |-> znear, zfar |-> zfar]

\* An f64 is the f32 nearest to it and whether it differs from that f32.
\* `as f32` rounds to the nearest f32, `as f64` is exact.  A colour
\* component is counted in tenths.
ColorOne == 10
F64(tenths, exact) == [f32 |-> tenths, exact |-> exact]
as_f32(x) == x.f32
as_f64(tenths) == F64(tenths, TRUE)
clamp(tenths) == IF tenths < 0 THEN 0 ELSE IF tenths > ColorOne THEN ColorOne ELSE tenths

\* State::set_clear_color
set_clear_color_unclamped(color) == [i \in 1 .. 4 |-> as_f64(color[i])]
set_clear_color(color) == [i \in 1 .. 4 |-> as_f64(clamp(color[i]))]

\* the text the script function "update" returns is a sequence of JSON
\* tokens.  The number a token stands for, in tenths:
NumberTokens == {"0.0", "0.1", "0.2", "0.3", "0.5", "1.0", "1.2", "-0.5"}
NumberOf(token) ==
    CASE token = "0.0" -> 0 [] token = "0.1" -> 1 [] token = "0.2" -> 2
      [] token = "0.3" -> 3 [] token = "0.5" -> 5 [] token = "1.0" -> ColorOne
      [] token = "1.2" -> 12 [] token = "-0.5" -> 0 - 5

\* the elements of a JSON array of numbers: the tokens at the even places,
\* when the text is "[", number, ",", number, .., "]"
IsNumberArray(text) ==
    /\ Len(text) >= 3 /\ Len(text) % 2 = 1
    /\ text[1] = "[" /\ text[Len(text)] = "]"
    /\ \A i \in 2 .. Len(text) - 1 :
          IF i % 2 = 0 THEN text[i] \in NumberTokens ELSE text[i] = ","
ArrayItems(text) == [i \in 1 .. (Len(text) - 1) \div 2 |-> NumberOf(text[2 * i])]

\* serde_json::from_str::<[f32; 4]> that fills an array that is too short
\* with 0.0 and drops what is beyond the fourth element
from_str_padding(text) ==
    IF IsNumberArray(text)
    THEN [ok |-> TRUE,
          color |-> [i \in 1 .. 4 |->
                        IF i <= Len(ArrayItems(text)) THEN ArrayItems(text)[i] ELSE 0]]
    ELSE [ok |-> FALSE, color |-> <<>>]
\* serde_json::from_str::<[f32; 4]>: an array of exactly four numbers
from_str(text) ==
    IF IsNumberArray(text) /\ Len(ArrayItems(text)) = 4
    THEN [ok |-> TRUE, color |-> ArrayItems(text)]
    ELSE [ok |-> FALSE, color |-> <<>>]

\* the RedrawRequested handler before its script call
NoResult == [ok |-> FALSE, text |-> <<>>]
RedrawStart == [pc |-> "script", result |-> NoResult, warned |-> FALSE]

(***************************************************************************)
(* Inputs of the light operations                                          *)
(***************************************************************************)
AddValues    == 1 .. NumLightValues
UpdateValues == (NumLightValues + 1) .. (2 * NumLightValues)
ScenarioValues == 1 .. NumScenarioValues
PosOf(v)   == <<v, 3, 0 - v>>
ColorOf(v) == <<1, v, v, 1>>

SlotArgs == (0 .. MaxSlotArg) \cup {MAX_LIGHTS}

\* add_light has not been the most recent call
NoCall == <<0, 0>>

(***************************************************************************)
(* The light manager as a state machine: one action per method             *)
(***************************************************************************)
\* the particle side of a state in which only the light manager is exercised
\* the paths typed into the Load Model panel, the error texts of a load that
\* fails, and the names and tints typed into the New Material panel
ModelPathInputs ==
    {INITIAL_MODEL_PATH, <<"teapot", ".obj">>, <<"bob">>,
     <<"bob", "'", "s", ".obj">>}
ErrorInputs == {<<"file not found">>}
MaterialNameInputs == {<<"foo">>, <<"bar">>}
\* a texture path that no load puts into the registry
MissingPng == <<"missing", ".png">>
ColorInputs == 1 .. NumFloatValues

NoCreate == <<"None", <<>>>>
NoWorkers == [path \in ModelPathInputs |-> 0]
TexturePaths ==
    {WhitePng, MissingPng} \cup {LoadedTexture(path) : path \in ModelPathInputs}
NoUploads == [texture_path \in TexturePaths |-> 0]

\* State::new: the camera and the projection, the clear colour, the assets
\* of the light manager; no call of the script function "update" yet
StateNewWorld ==
    /\ camera = CameraNew(<<0, 5, 10>>, DegMinus90, DegMinus20, Deg45, "0.1", "1000.0")
    /\ clear_color = <<F64(1, FALSE), F64(2, FALSE), F64(3, FALSE), F64(ColorOne, TRUE)>>
    /\ asset_keys = [light   |-> [model_path   |-> LIGHT_MODEL_PATH,
                                   material_key |-> LIGHT_MATERIAL_KEY],
                      systems |-> EmptyMap]
    /\ script_ret = NoCreate
    /\ redraw = RedrawStart

\* State::new, the lights: two lights, written into the new light buffer;
\* the dirty flag that add_light has set is left as it is
StateNewLights ==
    /\ light_manager =
          with_lights(<<<<<<2, 2, 2>>, <<1, 1, 1, 1>>>>,
                        <<<<0 - 2, 2, 2>>, <<1, 0, 0, 1>>>>>>)
    /\ light_buffer = WriteLights(light_manager)

\* no registries and no loads
NoLoads ==
    /\ models = EmptyMap
    /\ materials = EmptyMap
    /\ textures = {}
    /\ pending_model_loads = {}
    /\ in_flight_model_loads = {}
    /\ loaded_model_channel = <<>>
    /\ load_workers = NoWorkers
    /\ create_ret = NoCreate
    /\ change_ret = NoCreate
    /\ texture_uploads = NoUploads
    /\ StateNewWorld

\* State::new: the default material, the initial model with its materials,
\* both sets of loads empty and the channel empty
StateNewLoads ==
    /\ models = MapInsert(EmptyMap, INITIAL_MODEL_PATH, LoadedModel(INITIAL_MODEL_PATH))
    /\ materials =
          InsertAll(MapInsert(EmptyMap, DEFAULT_MATERIAL_KEY,
                              [name |-> "default", texture_path |-> WhitePng,
                               color |-> 1, source |-> "System"]),
                    LoadedMaterials(INITIAL_MODEL_PATH))
    /\ textures = {WhitePng, LoadedTexture(INITIAL_MODEL_PATH)}
    /\ pending_model_loads = {}
    /\ in_flight_model_loads = {}
    /\ loaded_model_channel = <<>>
    /\ load_workers = NoWorkers
    /\ create_ret = NoCreate
    /\ change_ret = NoCreate
    /\ texture_uploads =
          [texture_path \in TexturePaths |->
              (IF texture_path = WhitePng THEN 1 ELSE 0)
              + UploadsOfLoad(INITIAL_MODEL_PATH, texture_path)]
    /\ StateNewWorld

NoFrames ==
    /\ particle_system_manager = ParticleSystemManagerNew
    /\ is_surface_configured = FALSE
    /\ rebuilt = EmptyMap
    /\ burst = EmptyMap
    /\ NoLoads

LightInit ==
    /\ light_manager = LightManagerNew
    /\ light_buffer = KeepLights(WriteLights(LightManagerNew), LightManagerNew,
                                LightManagerNew)
    /\ add_ret = NoCall
    /\ scn_pc = 0
    /\ scn_in = <<>>
    /\ NoFrames

AddLight ==
    /\ \E v \in AddValues :
          LET r == add_light(light_manager, PosOf(v), ColorOf(v)) IN
          /\ light_manager' = r.self
          /\ add_ret' = r.ret
    /\ UNCHANGED <<scn_pc, scn_in>>
    /\ light_buffer' = KeepLights(light_buffer, light_manager, light_manager')
    /\ UNCHANGED <<frameVars, loadVars>>

RemoveLight ==
    /\ \E index \in SlotArgs :
          light_manager' = remove_light(light_manager, index)
    /\ add_ret' = NoCall
    /\ UNCHANGED <<scn_pc, scn_in>>
    /\ light_buffer' = KeepLights(light_buffer, light_manager, light_manager')
    /\ UNCHANGED <<frameVars, loadVars>>

UpdateLight ==
    /\ \E index \in SlotArgs, v \in UpdateValues :
          light_manager' = update_light(light_manager, index, PosOf(v), ColorOf(v))
    /\ add_ret' = NoCall
    /\ UNCHANGED <<scn_pc, scn_in>>
    /\ light_buffer' = KeepLights(light_buffer, light_manager, light_manager')
    /\ UNCHANGED <<frameVars, loadVars>>

ClearDirty ==
    /\ light_manager' = clear_dirty(light_manager)
    /\ add_ret' = NoCall
    /\ UNCHANGED <<scn_pc, scn_in>>
    /\ light_buffer' = KeepLights(light_buffer, light_manager, light_manager')
    /\ UNCHANGED <<frameVars, loadVars>>

LightNext == AddLight \/ RemoveLight \/ UpdateLight \/ ClearDirty

SpecLight == LightInit /\ [][LightNext]_vars

(***************************************************************************)
(* The scenario of the spec's testable property 10: three add_light calls, *)
(* remove_light(1), a fourth add_light; the inputs are free                *)
(***************************************************************************)
ScenarioInit ==
    /\ light_manager = LightManagerNew
    /\ light_buffer = KeepLights(WriteLights(LightManagerNew), LightManagerNew,
                                LightManagerNew)
    /\ add_ret = NoCall
    /\ scn_pc = 1
    /\ scn_in = <<>>
    /\ NoFrames

ScenarioAdd ==
    /\ scn_pc \in {1, 2, 3, 5}
    /\ \E v \in ScenarioValues :
          LET r == add_light(light_manager, PosOf(v), ColorOf(v)) IN
          /\ light_manager' = r.self
          /\ add_ret' = r.ret
          /\ scn_in' = Append(scn_in, MakeLight(PosOf(v), ColorOf(v)))
    /\ scn_pc' = scn_pc + 1
    /\ light_buffer' = KeepLights(light_buffer, light_manager, light_manager')
    /\ UNCHANGED <<frameVars, loadVars>>

ScenarioRemove ==
    /\ scn_pc = 4
    /\ light_manager' = remove_light(light_manager, 1)
    /\ add_ret' = NoCall
    /\ scn_pc' = 5
    /\ light_buffer' = KeepLights(light_buffer, light_manager, light_manager')
    /\ UNCHANGED scn_in
    /\ UNCHANGED <<frameVars, loadVars>>

ScenarioNext == ScenarioAdd \/ ScenarioRemove

SpecScenario == ScenarioInit /\ [][ScenarioNext]_vars

(***************************************************************************)
(* The frame loop: State::new, resize, render with the particle UI, and    *)
(* the passing of time                                                     *)
(***************************************************************************)
\* slider ends and button defaults of the particle UI
GridRowsMin == 5
GridRowsDefault == 10
SphereCountMin == 100
SphereCountDefault == 1000
GridRowsInputs == {GridRowsMin, GridRowsDefault}
SphereCountInputs == {SphereCountMin, SphereCountDefault}

\* format!("Grid_{}", n), format!("Sphere_{}", n) and "main"
GridName(n) == <<"Grid_", n>>
SphereName(n) == <<"Sphere_", n>>
MainName == <<"main", 0>>

\* the ghost record of a system that has just been constructed
NewBurst == [marks |-> 0, rebuilds |-> 0, edited |-> FALSE]

\* systems_mut(): every system of the manager, with a setter
SetSystem(self, key, system) ==
    IF key[1] = "Grid"
    THEN [self EXCEPT !.grids[key[2]] = system]
    ELSE [self EXCEPT !.spheres[key[2]] = system]

rebuild(self, key) ==
    IF key[1] = "Grid"
    THEN SetSystem(self, key, grid_rebuild(SystemAt(self, key), LiveBuffers(self)))
    ELSE SetSystem(self, key, sphere_rebuild(SystemAt(self, key), LiveBuffers(self)))

\* the rebuild loop of render(): `if system.needs_rebuild() { rebuild }` for
\* every system.  The buffers alive when a system is rebuilt differ from those
\* alive when the loop begins only in buffers of other systems, which carry
\* other labels.  done: the systems on which rebuild has been called.
RebuildLoop(self) ==
    LET live == LiveBuffers(self) IN
    [self |-> [self EXCEPT
                  !.grids = [n \in DOMAIN @ |->
                      IF needs_rebuild(@[n]) THEN grid_rebuild(@[n], live)
                      ELSE @[n]],
                  !.spheres = [n \in DOMAIN @ |->
                      IF needs_rebuild(@[n]) THEN sphere_rebuild(@[n], live)
                      ELSE @[n]]],
     done |-> {k \in SystemKeys(self) : needs_rebuild(SystemAt(self, k))}]

\* what the user does in the particle panel during one frame
NoKey == <<"", MainName>>
UiEvents(self) ==
    {[op |-> "none", key |-> NoKey, v |-> 0]}
    \cup {[op |-> op, key |-> NoKey, v |-> 0] : op \in
            IF manager_count(self) < MaxSystems THEN {"add_grid", "add_sphere"} ELSE {}}
    \cup {[op |-> "rows", key |-> <<"Grid", n>>, v |-> v] :
            n \in DOMAIN self.grids, v \in GridRowsInputs}
    \cup {[op |-> "count", key |-> <<"Sphere", n>>, v |-> v] :
            n \in DOMAIN self.spheres, v \in SphereCountInputs}
    \cup {[op |-> op, key |-> k, v |-> 0] :
            op \in {"uniform", "remove"}, k \in SystemKeys(self)}

\* a generator slider that writes the field and leaves the system clean
ui_slider_unmarked(system, field, v) ==
    [system EXCEPT !.params[field] = v]

\* a generator slider of the particle panel: the slider writes the field,
\* reports changed(), and `if params_changed { system.mark_dirty() }` follows
ui_slider(system, field, v) ==
    mark_dirty([system EXCEPT !.params[field] = v])

\* a slider reports changed() only for a value other than the present one
SliderChanged(self, ui) ==
    CASE ui.op = "rows"  -> SystemAt(self, ui.key).params.rows # ui.v
      [] ui.op = "count" -> SystemAt(self, ui.key).params.count # ui.v
      [] OTHER -> TRUE

\* the particle panel of app_ui for one user event
app_ui(self, ui) ==
    CASE ui.op = "add_grid" ->
            LET name == GridName(manager_count(self)) IN
            add_grid(self, name,
                     GridParticleSystemNew(LiveBuffers(self), name,
                                           [rows |-> GridRowsDefault]))
      [] ui.op = "add_sphere" ->
            LET name == SphereName(manager_count(self)) IN
            add_sphere(self, name,
                       SphereParticleSystemNew(LiveBuffers(self), name,
                                               [count |-> SphereCountDefault]))
      [] ui.op = "rows" ->
            SetSystem(self, ui.key, ui_slider(SystemAt(self, ui.key), "rows", ui.v))
      [] ui.op = "count" ->
            SetSystem(self, ui.key, ui_slider(SystemAt(self, ui.key), "count", ui.v))
      [] ui.op = "uniform" ->
            SetSystem(self, ui.key, mark_dirty(SystemAt(self, ui.key)))
      [] ui.op = "remove" -> manager_remove(self, ui.key[2])
      [] OTHER -> self

\* time passes by d ticks: every stored Instant is d ticks further away
Elapse(self, d) ==
    [self EXCEPT
        !.grids = [n \in DOMAIN @ |->
            [@[n] EXCEPT !.last_edit_time = Min(@ + d, Window)]],
        !.spheres = [n \in DOMAIN @ |->
            [@[n] EXCEPT !.last_edit_time = Min(@ + d, Window)]]]

\* the clock advances by one tick less than a debounce window, or by a
\* whole window
TickSteps == {Window - 1, Window}

\* the bookkeeping of the bursts of edits.  A mark_dirty call belongs to the
\* burst of the call before it when that one is less than a debounce window
\* old; otherwise it begins a new burst.  The calls of a burst are counted
\* as none, one or several (2), the rebuilds likewise.
Quiet(b) == [b EXCEPT !.edited = FALSE]
Marked(b, system) ==
    IF b.marks = 0 \/ elapsed_as_millis(system.last_edit_time) >= DEBOUNCE_MS
    THEN [marks |-> 1, rebuilds |-> 0, edited |-> TRUE]
    ELSE [b EXCEPT !.marks = Min(@ + 1, 2), !.edited = TRUE]
Rebuilt(b) == [b EXCEPT !.rebuilds = Min(@ + 1, 2)]

BurstAfterUi(self, b, ui) ==
    CASE ui.op = "add_grid" ->
            MapInsert(b, <<"Grid", GridName(manager_count(self))>>, NewBurst)
      [] ui.op = "add_sphere" ->
            MapInsert(b, <<"Sphere", SphereName(manager_count(self))>>, NewBurst)
      [] ui.op \in {"rows", "count", "uniform"} ->
            [b EXCEPT ![ui.key] = Marked(@, SystemAt(self, ui.key))]
      [] ui.op = "remove" -> MapRemove(b, ui.key)
      [] OTHER -> b

FrameInit ==
    /\ StateNewLights
    /\ add_ret = NoCall
    /\ scn_pc = 0
    /\ scn_in = <<>>
    /\ \E rows \in GridRowsInputs :
          particle_system_manager =
              add_grid(ParticleSystemManagerNew, MainName,
                       GridParticleSystemNew({}, MainName, [rows |-> rows]))
    /\ is_surface_configured = FALSE
    /\ rebuilt = EmptyMap
    /\ burst = [k \in {<<"Grid", MainName>>} |-> NewBurst]
    /\ StateNewLoads

Tick ==
    /\ \E d \in TickSteps :
          particle_system_manager' = Elapse(particle_system_manager, d)
    /\ rebuilt' = EmptyMap
    /\ burst' = [k \in DOMAIN burst |-> Quiet(burst[k])]
    /\ UNCHANGED <<is_surface_configured, lightVars, loadVars>>

\* State::resize
Resize ==
    /\ \E width \in {0, 1}, height \in {0, 1} :
          is_surface_configured' =
              IF width > 0 /\ height > 0 THEN TRUE ELSE is_surface_configured
    /\ rebuilt' = EmptyMap
    /\ burst' = [k \in DOMAIN burst |-> Quiet(burst[k])]
    /\ UNCHANGED <<particle_system_manager, lightVars, loadVars>>

\* what can happen in a frame after the rebuild loop: get_current_texture
\* fails, or the UI pass runs with one user event
FrameEvents(looped) ==
    {[op |-> "surface_error", key |-> NoKey, v |-> 0]}
        \cup {ui \in UiEvents(looped) : SliderChanged(looped, ui)}

\* a render() whose render pass precedes the rebuild loop
RenderLoopAfterPass == [self |-> particle_system_manager, done |-> {}]

\* State::render up to the rebuild loop
RenderLoop ==
    IF ~is_surface_configured
    THEN [self |-> particle_system_manager, done |-> {}]
    ELSE RebuildLoop(particle_system_manager)

\* State::render: the early return, the rebuild loop, then either a surface
\* error or the UI pass
Render ==
    /\ \E loop \in {RenderLoop} :
       \E ev \in IF is_surface_configured
                 THEN FrameEvents(loop.self)
                 ELSE {[op |-> "early_return", key |-> NoKey, v |-> 0]} :
          /\ rebuilt' = [k \in loop.done |->
                SystemAt(particle_system_manager, k).instance_buffer]
          /\ particle_system_manager' = app_ui(loop.self, ev)
          /\ burst' = BurstAfterUi(loop.self,
                         [k \in DOMAIN burst |->
                             IF k \in loop.done THEN Rebuilt(Quiet(burst[k]))
                             ELSE Quiet(burst[k])],
                         ev)
    /\ UNCHANGED <<is_surface_configured, lightVars, loadVars>>

FrameNext == Tick \/ Resize \/ Render

SpecFrame == FrameInit /\ [][FrameNext]_vars

(***************************************************************************)
(* One particle system with its full generator params, under update_params,*)
(* the generator sliders, the clock and the rebuild loop                   *)
(***************************************************************************)
\* numbers standing for the values of a float field (spacing, radius, one
\* coordinate of center)
FloatValues == 1 .. NumFloatValues
CenterInputs == {<<v - 1, 0, 0>> : v \in FloatValues}
GridParamsInputs ==
    [rows : 1 .. MaxRows, spacing : FloatValues, center : CenterInputs]
SphereParamsInputs ==
    [count : 1 .. MaxCount, radius : FloatValues, center : CenterInputs]

\* the values each slider of the panel can be moved to
SliderInputs(field) ==
    CASE field = "rows" -> GridRowsInputs
      [] field = "count" -> SphereCountInputs
      [] field = "center" -> CenterInputs
      [] OTHER -> FloatValues
SliderFields(key) ==
    IF key[1] = "Grid" THEN {"rows", "spacing", "center"}
    ELSE {"count", "radius", "center"}

update_params(system, key, params) ==
    IF key[1] = "Grid" THEN grid_update_params(system, params)
    ELSE sphere_update_params(system, params)
ParamsInputs(key) ==
    IF key[1] = "Grid" THEN GridParamsInputs ELSE SphereParamsInputs

ParamsInit ==
    /\ light_manager = LightManagerNew
    /\ light_buffer = KeepLights(WriteLights(LightManagerNew), LightManagerNew,
                                LightManagerNew)
    /\ add_ret = NoCall
    /\ scn_pc = 0
    /\ scn_in = <<>>
    /\ \/ \E params \in GridParamsInputs :
             particle_system_manager =
                 add_grid(ParticleSystemManagerNew, MainName,
                          GridParticleSystemNew({}, MainName, params))
       \/ \E params \in SphereParamsInputs :
             particle_system_manager =
                 add_sphere(ParticleSystemManagerNew, MainName,
                            SphereParticleSystemNew({}, MainName, params))
    /\ is_surface_configured = FALSE
    /\ rebuilt = EmptyMap
    /\ burst = EmptyMap
    /\ NoLoads

UpdateParams ==
    /\ \E key \in SystemKeys(particle_system_manager) :
       \E params \in ParamsInputs(key) :
          particle_system_manager' =
              SetSystem(particle_system_manager, key,
                  update_params(SystemAt(particle_system_manager, key), key, params))
    /\ UNCHANGED <<is_surface_configured, rebuilt, burst, lightVars, loadVars>>

MoveSlider ==
    /\ \E key \in SystemKeys(particle_system_manager) :
       \E field \in SliderFields(key) :
       \E v \in SliderInputs(field) :
          /\ SystemAt(particle_system_manager, key).params[field] # v
          /\ particle_system_manager' =
                SetSystem(particle_system_manager, key,
                    ui_slider(SystemAt(particle_system_manager, key), field, v))
    /\ UNCHANGED <<is_surface_configured, rebuilt, burst, lightVars, loadVars>>

\* the rebuild loop of render()
RebuildDue ==
    /\ particle_system_manager' = RebuildLoop(particle_system_manager).self
    /\ UNCHANGED <<is_surface_configured, rebuilt, burst, lightVars, loadVars>>

ParamsNext == UpdateParams \/ MoveSlider \/ Tick \/ RebuildDue

SpecParams == ParamsInit /\ [][ParamsNext]_vars

(***************************************************************************)
(* The particle system manager under add_grid, add_sphere and remove       *)
(***************************************************************************)
ManagerNames == {<<"system", n>> : n \in 1 .. NumNames}
\* the systems handed to add_grid and add_sphere
NewGrid(self, name) ==
    GridParticleSystemNew(LiveBuffers(self), name,
                          [rows |-> 1, spacing |-> 1, center |-> <<0, 0, 0>>])
NewSphere(self, name) ==
    SphereParticleSystemNew(LiveBuffers(self), name,
                            [count |-> 1, radius |-> 1, center |-> <<0, 0, 0>>])

ManagerInit ==
    /\ light_manager = LightManagerNew
    /\ light_buffer = KeepLights(WriteLights(LightManagerNew), LightManagerNew,
                                LightManagerNew)
    /\ add_ret = NoCall
    /\ scn_pc = 0
    /\ scn_in = <<>>
    /\ NoFrames

AddGridSystem ==
    /\ \E name \in ManagerNames :
          particle_system_manager' =
              add_grid(particle_system_manager, name,
                       NewGrid(particle_system_manager, name))
    /\ UNCHANGED <<is_surface_configured, rebuilt, burst, lightVars, loadVars>>

AddSphereSystem ==
    /\ \E name \in ManagerNames :
          particle_system_manager' =
              add_sphere(particle_system_manager, name,
                         NewSphere(particle_system_manager, name))
    /\ UNCHANGED <<is_surface_configured, rebuilt, burst, lightVars, loadVars>>

RemoveSystem ==
    /\ \E name \in ManagerNames :
          particle_system_manager' = remove(particle_system_manager, name).self
    /\ UNCHANGED <<is_surface_configured, rebuilt, burst, lightVars, loadVars>>

ManagerNext == AddGridSystem \/ AddSphereSystem \/ RemoveSystem

SpecManager == ManagerInit /\ [][ManagerNext]_vars

(***************************************************************************)
(* The background model loads: requests from the Load Model panel, the     *)
(* drain and the dispatch of update(), and the loads that finish           *)
(***************************************************************************)
\* State::new, and nothing edited
StateNew ==
    /\ StateNewLights
    /\ add_ret = NoCall
    /\ scn_pc = 0
    /\ scn_in = <<>>
    /\ particle_system_manager =
          add_grid(ParticleSystemManagerNew, MainName,
                   GridParticleSystemNew({}, MainName, [rows |-> GridRowsDefault]))
    /\ is_surface_configured = FALSE
    /\ rebuilt = EmptyMap
    /\ burst = [k \in {<<"Grid", MainName>>} |-> NewBurst]
    /\ StateNewLoads

\* the UI actions render() handles after the UI pass
NoAction == [path |-> <<>>]
ui_actions(ev) ==
    /\ pending_model_loads' =
          IF ev.op = "model_to_load" THEN pending_model_loads \cup {ev.v.path}
          ELSE pending_model_loads
    /\ \E made \in {IF ev.op = "material_to_create"
                    THEN create_material(materials, textures, ev.v.name,
                                         ev.v.texture_path, ev.v.color)
                    ELSE [materials |-> materials, ret |-> create_ret]} :
       \E changed \in {IF ev.op = "material_texture_changed"
                       THEN change_material_texture(materials, textures, ev.v.key,
                                                    ev.v.texture_path)
                       ELSE [materials |-> made.materials, ret |-> change_ret]} :
          /\ create_ret' = made.ret
          /\ change_ret' = changed.ret
          /\ materials' =
                IF ev.op = "material_color_changed" /\ ev.v.key \in DOMAIN materials
                THEN [materials EXCEPT ![ev.v.key].color = ev.v.color]
                ELSE changed.materials

\* State::update, the lights, with the write left out
update_lights_no_write(self, buffer) ==
    IF self.dirty
    THEN [self |-> clear_dirty(self), buffer |-> KeepLights(buffer, self, self)]
    ELSE [self |-> self, buffer |-> KeepLights(buffer, self, self)]
\* State::update, the lights: `if is_dirty() { write_buffer(sync_to_gpu());
\* clear_dirty() }`
update_lights(self, buffer) ==
    IF self.dirty
    THEN [self |-> clear_dirty(self), buffer |-> WriteLights(self)]
    ELSE [self |-> self, buffer |-> KeepLights(buffer, self, self)]

\* app_ui, the section "Lights" when it is open.  The Add Light button;
\* then for every active slot the sliders of its light and update_light
\* with what they show, every frame; then the removal of the light whose
\* delete button was clicked; then the write of the buffer when a button
\* or a slider has reported a change.  The dirty flag is not cleared.
LightPanelOps == {"lights_open", "light_add", "light_edit", "light_delete"}
RECURSIVE LightPanelLoop(_, _, _)
LightPanelLoop(self, i, ev) ==
    IF i >= MAX_LIGHTS THEN self
    ELSE IF ~is_active(self, i) THEN LightPanelLoop(self, i + 1, ev)
    ELSE LET light == self.lights[i]
             pos   == IF ev.op = "light_edit" /\ ev.v.slot = i THEN ev.v.pos
                      ELSE <<light.position[1], light.position[2], light.position[3]>>
             color == IF ev.op = "light_edit" /\ ev.v.slot = i THEN ev.v.color
                      ELSE light.color
         IN LightPanelLoop(update_light(self, i, pos, color), i + 1, ev)
light_panel(self, buffer, ev) ==
    LET added  == IF ev.op = "light_add"
                  THEN add_light(self, <<0, 3, 0>>, <<1, 1, 1, 1>>)
                  ELSE [self |-> self, ret |-> None]
        looped == LightPanelLoop(added.self, 0, ev)
        after  == IF ev.op = "light_delete" THEN remove_light(looped, ev.v.slot)
                  ELSE looped
        needs_gpu_sync ==
            \/ ev.op = "light_add" /\ added.ret # None
            \/ ev.op \in {"light_edit", "light_delete"}
    IN IF ev.op \notin LightPanelOps
       THEN [self |-> self, buffer |-> KeepLights(buffer, self, self)]
       ELSE [self   |-> after,
             buffer |-> IF needs_gpu_sync THEN WriteLights(after)
                        ELSE KeepLights(buffer, self, after)]

\* State::render for the events of one panel: the early return, the rebuild
\* loop, then a surface error, or the UI pass and the UI actions
StateRender(events) ==
    /\ \E loop \in {RenderLoop} :
       \E ev \in IF is_surface_configured
                 THEN {[op |-> "surface_error", key |-> NoKey, v |-> NoAction]}
                          \cup events
                 ELSE {[op |-> "early_return", key |-> NoKey, v |-> NoAction]} :
          /\ rebuilt' = [k \in loop.done |->
                SystemAt(particle_system_manager, k).instance_buffer]
          /\ particle_system_manager' = app_ui(loop.self, ev)
          /\ burst' = BurstAfterUi(loop.self,
                         [k \in DOMAIN burst |->
                             IF k \in loop.done THEN Rebuilt(Quiet(burst[k]))
                             ELSE Quiet(burst[k])],
                         ev)
          /\ ui_actions(ev)
          /\ \E panel \in {light_panel(light_manager, light_buffer, ev)} :
                /\ light_manager' = panel.self
                /\ light_buffer' = panel.buffer
    /\ UNCHANGED <<add_ret, scn_pc, scn_in, is_surface_configured, models, textures,
                   in_flight_model_loads, loaded_model_channel, load_workers,
                   camera, clear_color, asset_keys, texture_uploads, script_ret>>

\* State::render, called while the RedrawRequested handler is not observed
RenderWith(events) == StateRender(events) /\ UNCHANGED redraw

\* the Load button with a path in the text field
LoadEvents ==
    {[op |-> "model_to_load", key |-> NoKey, v |-> [path |-> path]] :
        path \in ModelPathInputs}

RenderLoadPanel == RenderWith(LoadEvents)

\* what the call of the script function "update" can come to: a colour, or
\* an error (a value that is no [f32; 4] is an error of call_js)
ScriptErrors == {<<"update is not defined">>, <<"invalid type">>}
ScriptWarn(e) == <<"warn", e>>

\* State::update: the light sync, the drain of the channel, the dispatch of
\* the pending loads, the call of the script function "update".  The colour
\* the script returns is dropped, its error is logged as a warning.
StateUpdate ==
    /\ \E synced \in {update_lights(light_manager, light_buffer)} :
          /\ light_manager' = synced.self
          /\ light_buffer' = synced.buffer
    /\ \E drained \in {DrainChannel(LoadState(models, materials, in_flight_model_loads),
                                    loaded_model_channel)} :
       \E paths_to_load \in {PathsToDispatch(drained, pending_model_loads)} :
          /\ models' = drained.models
          /\ materials' = drained.materials
          /\ in_flight_model_loads' = drained.in_flight_model_loads \cup paths_to_load
          /\ load_workers' = [path \in DOMAIN load_workers |->
                IF path \in paths_to_load THEN load_workers[path] + 1
                ELSE load_workers[path]]
    /\ loaded_model_channel' = <<>>
    /\ pending_model_loads' = {}
    /\ \E result \in {OkUnit} \cup {<<"Err", e>> : e \in ScriptErrors} :
          script_ret' = IF result[1] = "Ok" THEN result ELSE ScriptWarn(result[2])
    /\ UNCHANGED <<add_ret, scn_pc, scn_in, frameVars, textures, create_ret,
                   change_ret, camera, clear_color, asset_keys, texture_uploads>>

\* State::update, called while the RedrawRequested handler is not observed
Update == StateUpdate /\ UNCHANGED redraw

\* a background load that puts its model into the registry itself
LoadSucceedsIntoRegistry ==
    /\ \E path \in ModelPathInputs :
          /\ load_workers[path] > 0
          /\ load_workers' = [load_workers EXCEPT ![path] = @ - 1]
          /\ textures' = textures \cup {LoadedTexture(path)}
          /\ texture_uploads' =
                [texture_path \in TexturePaths |->
                    texture_uploads[texture_path] + UploadsOfLoad(path, texture_path)]
          /\ models' = MapInsert(models, path, LoadedModel(path))
          /\ loaded_model_channel' =
                Append(loaded_model_channel, [of |-> path, result |-> OkMsg(path)])
    /\ UNCHANGED <<lightVars, frameVars, materials, pending_model_loads,
                   in_flight_model_loads, create_ret, change_ret,
                   camera, clear_color, asset_keys, script_ret, redraw>>

\* a background load finishes with Ok: its textures are in the registry and
\* its message is in the channel
LoadSucceeds ==
    /\ \E path \in ModelPathInputs :
          /\ load_workers[path] > 0
          /\ load_workers' = [load_workers EXCEPT ![path] = @ - 1]
          /\ textures' = textures \cup {LoadedTexture(path)}
          /\ texture_uploads' =
                [texture_path \in TexturePaths |->
                    texture_uploads[texture_path] + UploadsOfLoad(path, texture_path)]
          /\ loaded_model_channel' =
                Append(loaded_model_channel, [of |-> path, result |-> OkMsg(path)])
    /\ UNCHANGED <<lightVars, frameVars, models, materials, pending_model_loads,
                   in_flight_model_loads, create_ret, change_ret,
                   camera, clear_color, asset_keys, script_ret, redraw>>

\* a background load finishes with Err
LoadFails ==
    /\ \E path \in ModelPathInputs, e \in ErrorInputs :
          /\ load_workers[path] > 0
          /\ load_workers' = [load_workers EXCEPT ![path] = @ - 1]
          /\ loaded_model_channel' =
                Append(loaded_model_channel, [of |-> path, result |-> ErrMsg(path, e)])
    /\ UNCHANGED <<lightVars, frameVars, models, materials, textures,
                   pending_model_loads, in_flight_model_loads, create_ret,
                   change_ret, worldVars>>

LoadNext == Resize \/ RenderLoadPanel \/ Update \/ LoadSucceeds \/ LoadFails

SpecLoad == StateNew /\ [][LoadNext]_vars

(***************************************************************************)
(* The material registry under the New Material panel and the tint picker  *)
(***************************************************************************)
MaterialEvents ==
    {[op |-> "material_to_create", key |-> NoKey,
      v |-> [name |-> name, texture_path |-> texture_path, color |-> color]] :
         name \in MaterialNameInputs, texture_path \in textures, color \in ColorInputs}
    \cup {[op |-> "material_color_changed", key |-> NoKey,
           v |-> [key |-> key, color |-> color]] :
              key \in DOMAIN materials, color \in ColorInputs}

RenderMaterialPanel == RenderWith(MaterialEvents)

MaterialNext == Resize \/ RenderMaterialPanel

SpecMaterial == StateNew /\ [][MaterialNext]_vars

(***************************************************************************)
(* The material registry under the whole Materials panel: the New Material *)
(* form, and the texture selector and the tint picker that the panel shows *)
(* for every material of the registry                                      *)
(***************************************************************************)
MaterialEditEvents ==
    MaterialEvents
    \cup {[op |-> "material_texture_changed", key |-> NoKey,
           v |-> [key |-> key, texture_path |-> texture_path]] :
              key \in DOMAIN materials, texture_path \in textures}

RenderMaterialEditor == RenderWith(MaterialEditEvents)

MaterialEditNext == Resize \/ RenderMaterialEditor

SpecMaterialEdit == StateNew /\ [][MaterialEditNext]_vars

(***************************************************************************)
(* The material registry under direct calls of create_material and         *)
(* change_material_texture                                                 *)
(***************************************************************************)
TextureInputs == textures \cup {MissingPng}
MaterialKeyInputs ==
    DOMAIN materials \cup {CustomKey(name) : name \in MaterialNameInputs}

CreateMaterial ==
    /\ \E name \in MaterialNameInputs, texture_path \in TextureInputs,
          color \in ColorInputs :
          \E made \in {create_material(materials, textures, name, texture_path, color)} :
             /\ materials' = made.materials
             /\ create_ret' = made.ret
    /\ UNCHANGED <<lightVars, frameVars, models, textures, pending_model_loads,
                   in_flight_model_loads, loaded_model_channel, load_workers,
                   change_ret, worldVars>>

ChangeMaterialTexture ==
    /\ \E material_key \in MaterialKeyInputs, new_texture_path \in TextureInputs :
          \E changed \in {change_material_texture(materials, textures, material_key,
                                                  new_texture_path)} :
             /\ materials' = changed.materials
             /\ change_ret' = changed.ret
    /\ UNCHANGED <<lightVars, frameVars, models, textures, pending_model_loads,
                   in_flight_model_loads, loaded_model_channel, load_workers,
                   create_ret, worldVars>>

RegistryNext == CreateMaterial \/ ChangeMaterialTexture

SpecRegistry == StateNew /\ [][RegistryNext]_vars

(***************************************************************************)
(* state.rs, world.rs: export_world and load_world                         *)
(***************************************************************************)
\* the assets of a particle system: those it was loaded with, or the
\* defaults every system made by State::new and by the panel is given
SystemAssets(assets, key) ==
    IF key \in DOMAIN assets.systems THEN assets.systems[key]
    ELSE [model_path   |-> PARTICLE_SYSTEM_MODEL_PATH,
          material_key |-> PARTICLE_SYSTEM_MATERIAL_KEY]

\* export_world, the lights: `for i in 0..max_lights()` pushes one
\* LightParams per active slot, each with the manager's model and material
RECURSIVE ExportLightsLoop(_, _, _, _)
ExportLightsLoop(self, light_assets, i, lights) ==
    IF i >= MAX_LIGHTS THEN lights
    ELSE IF get_light(self, i) # None
         THEN LET light == get_light(self, i)[1] IN
              ExportLightsLoop(self, light_assets, i + 1,
                  Append(lights,
                         [position     |-> <<light.position[1], light.position[2],
                                             light.position[3]>>,
                          color        |-> light.color,
                          model        |-> light_assets.model_path,
                          material_key |-> light_assets.material_key]))
         ELSE ExportLightsLoop(self, light_assets, i + 1, lights)

\* the ParticleSystemData of one system
ExportSystem(self, assets, key) ==
    [name         |-> key[2],
     model        |-> SystemAssets(assets, key).model_path,
     material_key |-> SystemAssets(assets, key).material_key,
     generator    |-> [kind |-> key[1], params |-> SystemAt(self, key).params]]

\* the orders in which a HashMap can yield the systems of the manager
RECURSIVE Orders(_)
Orders(keys) ==
    IF keys = {} THEN {<<>>}
    ELSE UNION {{<<k>> \o rest : rest \in Orders(keys \ {k})} : k \in keys}

\* export_world that lists the lights from the last slot down
export_world_descending(cam, lights, assets, systems, color, order) ==
    LET up == ExportLightsLoop(lights, assets.light, 0, <<>>) IN
    [background_color |-> [i \in 1 .. 4 |-> as_f32(color[i])],
     camera |-> [position  |-> cam.position,
                 yaw_deg   |-> to_degrees(cam.yaw),
                 pitch_deg |-> to_degrees(cam.pitch),
                 fovy_deg  |-> to_degrees(cam.fovy),
                 znear     |-> cam.znear,
                 zfar      |-> cam.zfar],
     lights |-> [i \in 1 .. Len(up) |-> up[Len(up) + 1 - i]],
     particle_systems |->
        [i \in 1 .. Len(order) |-> ExportSystem(systems, assets, order[i])]]

\* State::export_world; order: the order in which systems() yields
export_world(cam, lights, assets, systems, color, order) ==
    [background_color |-> [i \in 1 .. 4 |-> as_f32(color[i])],
     camera |-> [position  |-> cam.position,
                 yaw_deg   |-> to_degrees(cam.yaw),
                 pitch_deg |-> to_degrees(cam.pitch),
                 fovy_deg  |-> to_degrees(cam.fovy),
                 znear     |-> cam.znear,
                 zfar      |-> cam.zfar],
     lights |-> ExportLightsLoop(lights, assets.light, 0, <<>>),
     particle_systems |->
        [i \in 1 .. Len(order) |-> ExportSystem(systems, assets, order[i])]]

\* the loop over data.lights taken from the last light to the first
RECURSIVE LoadLightsLoopFromEnd(_, _, _)
LoadLightsLoopFromEnd(self, lights, i) ==
    IF i > Len(lights) THEN self
    ELSE LoadLightsLoopFromEnd(
             add_light(self, lights[Len(lights) + 1 - i].position,
                       lights[Len(lights) + 1 - i].color).self,
             lights, i + 1)

\* load_world, the lights: `for light_data in data.lights { add_light(..) }`
RECURSIVE LoadLightsLoop(_, _, _)
LoadLightsLoop(self, lights, i) ==
    IF i > Len(lights) THEN self
    ELSE LoadLightsLoop(add_light(self, lights[i].position, lights[i].color).self,
                        lights, i + 1)

\* load_world, the particle systems: `for ps_data in data.particle_systems`
\* makes the system of the generator's kind and adds it under its name
RECURSIVE LoadSystemsLoop(_, _, _)
LoadSystemsLoop(loaded, particle_systems, i) ==
    IF i > Len(particle_systems) THEN loaded
    ELSE LET ps_data == particle_systems[i]
             key == <<ps_data.generator.kind, ps_data.name>>
             live == LiveBuffers(loaded.self)
             self == IF ps_data.generator.kind = "Grid"
                     THEN add_grid(loaded.self, ps_data.name,
                              GridParticleSystemNew(live, ps_data.name,
                                                    ps_data.generator.params))
                     ELSE add_sphere(loaded.self, ps_data.name,
                              SphereParticleSystemNew(live, ps_data.name,
                                                      ps_data.generator.params))
         IN LoadSystemsLoop(
                [self   |-> self,
                 assets |-> MapInsert(loaded.assets, key,
                               [model_path   |-> ps_data.model,
                                material_key |-> ps_data.material_key])],
                particle_systems, i + 1)

\* the paths load_world asks for
RequiredModels(data) ==
    {data.lights[i].model : i \in 1 .. Len(data.lights)}
        \cup {data.particle_systems[i].model : i \in 1 .. Len(data.particle_systems)}

\* load_world, the camera and the projection
LoadedCamera(data) ==
    CameraNew(data.camera.position, data.camera.yaw_deg, data.camera.pitch_deg,
              data.camera.fovy_deg, data.camera.znear, data.camera.zfar)

\* load_world, the model and the material of the lights: those of the
\* first light, or those of LightManager::new when the world has no light
LoadedLightAssets(data) ==
    IF data.lights # <<>>
    THEN [model_path   |-> data.lights[1].model,
          material_key |-> data.lights[1].material_key]
    ELSE [model_path |-> TeapotObj, material_key |-> TeapotDefault]

NoSystems == [self |-> ParticleSystemManagerNew, assets |-> EmptyMap]

\* load_world that requests every model the world names
load_world_requests_all(self, data) ==
    LET systems == LoadSystemsLoop(NoSystems, data.particle_systems, 1)
    IN [pending_model_loads |-> self.pending_model_loads \cup RequiredModels(data),
        camera |-> LoadedCamera(data),
        light_manager |-> clear_dirty(LoadLightsLoop(LightManagerNew, data.lights, 1)),
        asset_keys |-> [light |-> LoadedLightAssets(data), systems |-> systems.assets],
        particle_system_manager |-> systems.self,
        clear_color |-> [i \in 1 .. 4 |-> as_f64(data.background_color[i])]]

\* load_world that adds the lights and the systems of the world to those
\* there are
load_world_merges(self, data) ==
    LET systems == LoadSystemsLoop([self   |-> self.particle_system_manager,
                                    assets |-> self.asset_keys.systems],
                                   data.particle_systems, 1)
    IN [pending_model_loads |->
           self.pending_model_loads
               \cup {path \in RequiredModels(data) : path \notin DOMAIN self.models},
        camera |-> LoadedCamera(data),
        light_manager |-> clear_dirty(LoadLightsLoop(self.light_manager, data.lights, 1)),
        asset_keys |-> [light |-> LoadedLightAssets(data), systems |-> systems.assets],
        particle_system_manager |-> systems.self,
        clear_color |-> [i \in 1 .. 4 |-> as_f64(data.background_color[i])]]

\* State::load_world; self: the fields of State it reads, the result: the
\* fields it assigns
load_world(self, data) ==
    LET systems == LoadSystemsLoop(NoSystems, data.particle_systems, 1)
    IN [pending_model_loads |->
           self.pending_model_loads
               \cup {path \in RequiredModels(data) : path \notin DOMAIN self.models},
        camera |-> LoadedCamera(data),
        light_manager |-> clear_dirty(LoadLightsLoop(LightManagerNew, data.lights, 1)),
        asset_keys |-> [light |-> LoadedLightAssets(data), systems |-> systems.assets],
        particle_system_manager |-> systems.self,
        clear_color |-> [i \in 1 .. 4 |-> as_f64(data.background_color[i])]]

\* the fields of State that export_world and load_world read
StateFields ==
    [models |-> models, pending_model_loads |-> pending_model_loads,
     light_manager |-> light_manager, asset_keys |-> asset_keys,
     particle_system_manager |-> particle_system_manager]

(***************************************************************************)
(* The world under load_world, the removal of a light and the camera       *)
(* controller                                                              *)
(***************************************************************************)
MaxWorldLights  == 2
\* the Add Light button is used while there are fewer lights than this
MaxPanelLights  == 3
\* the Add Grid and Add Sphere buttons are used while the manager holds
\* fewer systems than this
MaxAddedSystems == 3
MaxWorldSystems == 3

\* the lights of a world file: the first n of a row of lights, all with one
\* model, registered or not
WorldLights ==
    {[i \in 1 .. n |-> [position |-> PosOf(i), color |-> ColorOf(i),
                        model |-> path, material_key |-> DEFAULT_MATERIAL_KEY]] :
        n \in 0 .. MaxWorldLights, path \in {LIGHT_MODEL_PATH, TeapotObj}}

\* the particle systems of a world file: the first n of a row of entries.
\* The second has the name of the first and the other kind, the third the
\* name and the kind of the first and other assets and parameters.
WorldSystemAt(i) ==
    CASE i = 1 ->
           [name |-> MainName, model |-> INITIAL_MODEL_PATH,
            material_key |-> DEFAULT_MATERIAL_KEY,
            generator |-> [kind |-> "Grid",
                params |-> [rows |-> 2, spacing |-> 1, center |-> <<0, 0, 0>>]]]
      [] i = 2 ->
           [name |-> MainName, model |-> <<"bob">>,
            material_key |-> DEFAULT_MATERIAL_KEY,
            generator |-> [kind |-> "Sphere",
                params |-> [count |-> 2, radius |-> 1, center |-> <<0, 0, 0>>]]]
      [] i = 3 ->
           [name |-> MainName, model |-> <<"bob">>,
            material_key |-> <<"bob", "/", "body">>,
            generator |-> [kind |-> "Grid",
                params |-> [rows |-> 1, spacing |-> 2, center |-> <<0, 0, 0>>]]]
      [] OTHER ->
           [name |-> SphereName(i), model |-> INITIAL_MODEL_PATH,
            material_key |-> DEFAULT_MATERIAL_KEY,
            generator |-> [kind |-> "Sphere",
                params |-> [count |-> 1, radius |-> 1, center |-> <<1, 0, 0>>]]]
WorldSystems ==
    {[i \in 1 .. n |-> WorldSystemAt(i)] : n \in 0 .. MaxWorldSystems}

\* the camera and the background of a world file: those a fresh State
\* exports, and others
WorldViews ==
    {[camera |-> [position |-> <<0, 5, 10>>, yaw_deg |-> DegMinus90,
                  pitch_deg |-> DegMinus20, fovy_deg |-> Deg45,
                  znear |-> "0.1", zfar |-> "1000.0"],
      background_color |-> <<1, 2, 3, ColorOne>>],
     [camera |-> [position |-> <<1, 2, 3>>, yaw_deg |-> F32(0, 15728640, 0 - 19),
                  pitch_deg |-> F32(0, 0, 0), fovy_deg |-> Deg45,
                  znear |-> "0.5", zfar |-> "100.0"],
      background_color |-> <<0, 0, 0, 5>>]}

WorldInputs ==
    {[background_color |-> view.background_color, camera |-> view.camera,
      lights |-> lights, particle_systems |-> particle_systems] :
        view \in WorldViews, lights \in WorldLights, particle_systems \in WorldSystems}

\* the yaw the camera controller leaves after a drag of the mouse, in radians
YawInputs == {F32(0, 15774971, 0 - 25), F32(1, 13176795, 0 - 23)}

\* load_world(data) with the world of a file, one of the given worlds
LoadWorldOf(worlds) ==
    /\ \E data \in worlds :
       \E loaded \in {load_world(StateFields, data)} :
          /\ pending_model_loads' = loaded.pending_model_loads
          /\ camera' = loaded.camera
          /\ light_manager' = loaded.light_manager
          /\ light_buffer' = WriteLights(loaded.light_manager)
          /\ asset_keys' = loaded.asset_keys
          /\ particle_system_manager' = loaded.particle_system_manager
          /\ clear_color' = loaded.clear_color
          /\ burst' = [k \in SystemKeys(loaded.particle_system_manager) |-> NewBurst]
    /\ rebuilt' = EmptyMap
    /\ UNCHANGED <<add_ret, scn_pc, scn_in, is_surface_configured, models,
                   materials, textures, in_flight_model_loads,
                   loaded_model_channel, load_workers, create_ret, change_ret,
                   texture_uploads, script_ret, redraw>>

LoadWorld == LoadWorldOf(WorldInputs)

\* State::update, the camera: the controller turns the camera by what the
\* mouse has been dragged
UpdateCamera ==
    /\ \E yaw \in YawInputs : camera' = [camera EXCEPT !.yaw = yaw]
    /\ UNCHANGED <<lightVars, frameVars, models, materials, textures,
                   pending_model_loads, in_flight_model_loads,
                   loaded_model_channel, load_workers, create_ret, change_ret,
                   clear_color, asset_keys, texture_uploads, script_ret, redraw>>

WorldNext == LoadWorld \/ RemoveLight \/ UpdateCamera

SpecWorld == StateNew /\ [][WorldNext]_vars

(***************************************************************************)
(* The world files and the load pipeline                                   *)
(***************************************************************************)
\* the world files that differ in the model they refer to: one light with a
\* model that is registered, that is not, or whose path has a quote; the
\* camera and the background are those of a fresh State
WorldFileModels == {INITIAL_MODEL_PATH, TeapotObj, <<"bob", "'", "s", ".obj">>}
FreshView == CHOOSE view \in WorldViews : view.camera.znear = "0.1"
WorldFileInputs ==
    {[background_color |-> FreshView.background_color, camera |-> FreshView.camera,
      lights |-> lights, particle_systems |-> <<>>] :
        lights \in
            {<<[position |-> PosOf(1), color |-> ColorOf(1), model |-> path,
                material_key |-> DEFAULT_MATERIAL_KEY]>> : path \in WorldFileModels}}

LoadWorldFile == LoadWorldOf(WorldFileInputs)

\* a background load of the path finishes, with Ok or with Err
WorkerFinishes(path) ==
    /\ load_workers[path] > 0
    /\ LoadSucceeds \/ LoadFails
    /\ load_workers'[path] = load_workers[path] - 1

WorldLoadNext == LoadWorldFile \/ Update \/ LoadSucceeds \/ LoadFails

\* the event loop redraws for ever, and every frame calls update(); a
\* spawned load task runs to its end and sends its result
SpecWorldLoad ==
    /\ StateNew
    /\ [][WorldLoadNext]_vars
    /\ WF_vars(Update)
    /\ \A path \in ModelPathInputs : WF_vars(WorkerFinishes(path))

(***************************************************************************)
(* The lights of State under update, the section "Lights" and load_world   *)
(***************************************************************************)
\* what the user does in the open section "Lights" during one frame:
\* nothing, a click on Add Light, a drag of the sliders of one light to
\* one other position and colour, a click on the delete button of one light
LightPanelEvents ==
    {[op |-> "lights_open", key |-> NoKey, v |-> NoAction]}
    \cup {[op |-> "light_add", key |-> NoKey, v |-> NoAction] : n \in
            IF num_lights(light_manager) < MaxPanelLights THEN {0} ELSE {}}
    \cup {ev \in {[op |-> "light_edit", key |-> NoKey,
                    v |-> [slot |-> i, pos |-> PosOf(1), color |-> ColorOf(1)]] :
                      i \in {k \in Slots : is_active(light_manager, k)}} :
             light_manager.lights[ev.v.slot] # MakeLight(ev.v.pos, ev.v.color)}
    \cup {[op |-> "light_delete", key |-> NoKey, v |-> [slot |-> i]] :
            i \in {k \in Slots : is_active(light_manager, k)}}

RenderLightPanel == RenderWith(LightPanelEvents)

\* world files without a light and with one light
LightWorlds ==
    {[background_color |-> FreshView.background_color, camera |-> FreshView.camera,
      lights |-> lights, particle_systems |-> <<>>] :
        lights \in {w \in WorldLights :
                       /\ Len(w) <= 1
                       /\ \A i \in 1 .. Len(w) : w[i].model = LIGHT_MODEL_PATH}}

LoadLightWorld == LoadWorldOf(LightWorlds)

LightSyncNext == Resize \/ RenderLightPanel \/ Update \/ LoadLightWorld

SpecLightSync == StateNew /\ [][LightSyncNext]_vars

(***************************************************************************)
(* The buttons Add Grid and Add Sphere and the delete buttons of the       *)
(* particle panel                                                          *)
(***************************************************************************)
AddRemoveEvents ==
    {[op |-> op, key |-> NoKey, v |-> NoAction] : op \in
        IF manager_count(RenderLoop.self) < MaxAddedSystems
        THEN {"add_grid", "add_sphere"} ELSE {}}
    \cup {[op |-> "remove", key |-> k, v |-> NoAction] :
             k \in SystemKeys(RenderLoop.self)}

RenderAddRemove == RenderWith(AddRemoveEvents)

AddRemoveNext == Resize \/ Tick \/ RenderAddRemove

SpecAddRemove == StateNew /\ [][AddRemoveNext]_vars

(***************************************************************************)
(* load_world with as many lights as the manager holds, and with more      *)
(***************************************************************************)
\* the numbers of lights of a world file: none, one, and the numbers around
\* MAX_LIGHTS
WorldLightCounts == {0, 1, MAX_LIGHTS - 1, MAX_LIGHTS, MAX_LIGHTS + 1, MAX_LIGHTS + 2}

ManyLightWorlds ==
    {[background_color |-> FreshView.background_color, camera |-> FreshView.camera,
      lights |-> [i \in 1 .. n |->
                     [position |-> PosOf(i), color |-> ColorOf(i),
                      model |-> LIGHT_MODEL_PATH,
                      material_key |-> DEFAULT_MATERIAL_KEY]],
      particle_systems |-> <<>>] :
        n \in WorldLightCounts}

LoadManyLights == LoadWorldOf(ManyLightWorlds)

\* the section "Lights" is open, with or without a click on the delete
\* button of the first, the second or the last slot
RenderLightDeletes ==
    RenderWith({ev \in LightPanelEvents :
                   \/ ev.op = "lights_open"
                   \/ ev.op = "light_delete" /\ ev.v.slot \in {0, 1, MAX_LIGHTS - 1}})

ManyLightsNext == Resize \/ RenderLightDeletes \/ Update \/ LoadManyLights

SpecManyLights == StateNew /\ [][ManyLightsNext]_vars

(***************************************************************************)
(* The generator params under the UI and under load_world                  *)
(***************************************************************************)
\* world files with one particle system: rows and count are the usize of
\* the file, which serde reads without a check, 0 among them
GeneratorWorlds ==
    {[background_color |-> FreshView.background_color, camera |-> FreshView.camera,
      lights |-> <<>>,
      particle_systems |-> <<[name |-> MainName, model |-> INITIAL_MODEL_PATH,
                              material_key |-> DEFAULT_MATERIAL_KEY,
                              generator |-> generator]>>] :
        generator \in
            {[kind |-> "Grid",
              params |-> [rows |-> rows, spacing |-> 1, center |-> <<0, 0, 0>>]] :
                rows \in {0, 1}}
            \cup {[kind |-> "Sphere",
                   params |-> [count |-> count, radius |-> 1, center |-> <<0, 0, 0>>]] :
                     count \in {0, 1}}}

LoadGeneratorWorld == LoadWorldOf(GeneratorWorlds)

GeneratorNext == LoadGeneratorWorld \/ Resize \/ Render

SpecGenerator == StateNew /\ [][GeneratorNext]_vars

(***************************************************************************)
(* The RedrawRequested handler                                             *)
(***************************************************************************)
\* the texts the script function "update" returns: two colours, one of
\* them with components beyond [0, 1], an array of three numbers, an array
\* of five, null, and an array with a string in it
ScriptTexts ==
    {<<"[", "0.1", ",", "0.2", ",", "0.3", ",", "1.0", "]">>,
     <<"[", "-0.5", ",", "1.2", ",", "0.5", ",", "1.0", "]">>,
     <<"[", "0.5", ",", "0.5", ",", "0.5", "]">>,
     <<"[", "0.5", ",", "0.5", ",", "0.5", ",", "0.5", ",", "0.5", "]">>,
     <<"null">>,
     <<"[", "0.1", ",", "0.2", ",", "0.3", ",", "\"a\"", "]">>}
ScriptResults ==
    {[ok |-> TRUE, text |-> text] : text \in ScriptTexts}
        \cup {[ok |-> FALSE, text |-> e] : e \in ScriptErrors}

\* the UI pass of a frame in which the user does nothing
IdleEvents == {[op |-> "no_input", key |-> NoKey, v |-> NoAction]}

\* RedrawRequested, the call of the script function "update": a colour is
\* set as the clear colour, anything else is logged as a warning
RedrawScriptOf(results) ==
    /\ redraw.pc = "script"
    /\ \E result \in results :
       \E parsed \in {IF result.ok THEN from_str(result.text)
                      ELSE [ok |-> FALSE, color |-> <<>>]} :
          /\ clear_color' =
                IF parsed.ok THEN set_clear_color(parsed.color) ELSE clear_color
          /\ redraw' = [pc |-> "update", result |-> result, warned |-> ~parsed.ok]
    /\ UNCHANGED <<lightVars, frameVars, models, materials, textures,
                   pending_model_loads, in_flight_model_loads,
                   loaded_model_channel, load_workers, create_ret, change_ret,
                   camera, asset_keys, texture_uploads, script_ret>>

RedrawScript == RedrawScriptOf(ScriptResults)

\* RedrawRequested, state.update()
RedrawUpdate ==
    /\ redraw.pc = "update"
    /\ StateUpdate
    /\ redraw' = [redraw EXCEPT !.pc = "render"]

\* RedrawRequested, state.render().  After the error Lost or Outdated the
\* handler calls resize with the size of the window; the surface was
\* configured when render got that far, so the call changes nothing here.
RedrawRender ==
    /\ redraw.pc = "render"
    /\ StateRender(IdleEvents)
    /\ redraw' = [redraw EXCEPT !.pc = "script"]

RedrawNext == Resize \/ RedrawScript \/ RedrawUpdate \/ RedrawRender

SpecRedraw == StateNew /\ [][RedrawNext]_vars

(***************************************************************************)
(* The order of a frame: the lights and the particle systems under the     *)
(* RedrawRequested handler, the UI and the passing of time                 *)
(***************************************************************************)
\* what the user does during one frame: the section "Lights" is open, with
\* or without a drag of the sliders of a light, or a uniform slider of a
\* particle system is dragged
FrameOrderEvents ==
    {ev \in LightPanelEvents : ev.op \in {"lights_open", "light_edit"}}
        \cup {[op |-> "uniform", key |-> k, v |-> NoAction] :
                 k \in SystemKeys(particle_system_manager)}

\* RedrawRequested with a script that has no function "update"
RedrawScriptFails ==
    RedrawScriptOf({[ok |-> FALSE, text |-> e] : e \in {<<"update is not defined">>}})

RedrawRenderPanels ==
    /\ redraw.pc = "render"
    /\ StateRender(FrameOrderEvents)
    /\ redraw' = [redraw EXCEPT !.pc = "script"]

FrameOrderNext ==
    Resize \/ Tick \/ RedrawScriptFails \/ RedrawUpdate \/ RedrawRenderPanels

SpecFrameOrder == StateNew /\ [][FrameOrderNext]_vars

(***************************************************************************)
(* The rebuild of a dirty particle system while frames are rendered and    *)
(* time passes                                                             *)
(***************************************************************************)
\* the particle panel: a slider is dragged, a system is removed, or one is
\* added to the empty manager
RebuildEvents ==
    {ui \in UiEvents(RenderLoop.self) :
        \/ ui.op \in {"uniform", "remove"}
        \/ ui.op \in {"add_grid", "add_sphere"} /\ manager_count(RenderLoop.self) = 0}

RenderParticlePanel ==
    RenderWith({[op |-> ui.op, key |-> ui.key, v |-> NoAction] : ui \in RebuildEvents})

\* a frame in which the user touches nothing
RenderIdle == RenderWith({})

RebuildNext == Resize \/ Tick \/ RenderIdle \/ RenderParticlePanel

\* render() begins with request_redraw(), so frames follow one another
\* whether or not the user acts; the clock of Instant::now() advances
SpecRebuild ==
    /\ StateNew
    /\ [][RebuildNext]_vars
    /\ WF_vars(Tick)
    /\ WF_vars(RenderIdle)

(***************************************************************************)
(* Vocabulary of the light claims, stated without the manager's methods    *)
(***************************************************************************)
\* the positions, counted from b, of the bits set in m
RECURSIVE BitPositions(_, _)
BitPositions(m, b) ==
    IF m = 0 THEN {}
    ELSE (IF m % 2 = 1 THEN {b} ELSE {}) \cup BitPositions(m \div 2, b + 1)

OccupiedSlots(self) == BitPositions(self.active_mask, 0) \cap Slots
Occupied(self, i) == i \in BitPositions(self.active_mask, 0)
FreeSlots(self) == Slots \ OccupiedSlots(self)
LowestOf(S) == CHOOSE k \in S : \A j \in S : k <= j
LightOf(v) == [position |-> <<v, 3, 0 - v>> \o <<1>>, color |-> <<1, v, v, 1>>]
AllValues == AddValues \cup UpdateValues
AllIndexes == 0 .. MAX_LIGHTS
\* the active slots in ascending order
ActiveSeq(self) ==
    SelectSeq([k \in 1 .. MAX_LIGHTS |-> k - 1], LAMBDA i : Occupied(self, i))

\* C1: with a free slot, add_light returns the lowest free slot i, stores the
\* given position (padded with 1) and color there, sets bit i and dirty, and
\* leaves the occupancy and the contents of every other slot as they were.
C1_AddLightFirstFit ==
    FreeSlots(light_manager) # {} =>
        \A v \in AllValues :
            LET i == LowestOf(FreeSlots(light_manager)) IN
            add_light(light_manager, PosOf(v), ColorOf(v)) =
                [self |-> [lights      |-> [light_manager.lights EXCEPT ![i] = LightOf(v)],
                           active_mask |-> light_manager.active_mask + 2 ^ i,
                           dirty       |-> TRUE],
                 ret  |-> Some(i)]

\* an add_light call has just reused the freed slot 0 although higher slots
\* were free as well
C1_Witness ==
    /\ add_ret = Some(0)
    /\ Occupied(light_manager, 1)
    /\ FreeSlots(light_manager) # {}
    /\ light_manager.lights[0] = LightOf(1)
    /\ light_manager.dirty

\* C2: when all 10 slots are occupied add_light returns None and the manager
\* (slot contents, mask, dirty flag) is left as it was.
C2_AddLightFull ==
    OccupiedSlots(light_manager) = Slots =>
        \A v \in AllValues :
            add_light(light_manager, PosOf(v), ColorOf(v))
                = [self |-> light_manager, ret |-> None]

\* an add_light call on a full manager has just returned None
C2_Witness ==
    /\ add_ret = None
    /\ OccupiedSlots(light_manager) = Slots

\* C3: num_lights() is the population count of the whole 32-bit mask, the
\* number of indices below 10 that are active, at most 10, and the count
\* sync_to_gpu() reports.
C3_NumLights ==
    LET n == num_lights(light_manager) IN
    /\ n = Cardinality(BitPositions(light_manager.active_mask, 0))
    /\ n = Cardinality({i \in 0 .. (MAX_LIGHTS - 1) : is_active(light_manager, i)})
    /\ n <= 10
    /\ sync_to_gpu(light_manager).num_lights = n

\* lights were added, the one in slot 0 was removed and higher ones remain
C3_Witness ==
    /\ ~Occupied(light_manager, 0)
    /\ light_manager.lights[0] # DefaultLight
    /\ num_lights(light_manager) >= 2

\* C4: with n active lights, entries 0..n-1 of sync_to_gpu() are the active
\* lights in ascending slot order, entries n..9 are zeroed and num_lights = n.
C4_SyncCompacts ==
    LET act == ActiveSeq(light_manager)
        n   == Cardinality(OccupiedSlots(light_manager))
    IN sync_to_gpu(light_manager) =
           [lights     |-> [k \in Slots |-> IF k < n THEN light_manager.lights[act[k + 1]]
                                            ELSE DefaultLight],
            num_lights |-> n]

\* slot 0 is free and still holds the light an update stored there, below
\* two active slots
C4_Witness ==
    /\ OccupiedSlots(light_manager) = {1, 2}
    /\ light_manager.lights[0] = LightOf(NumLightValues + 1)
    /\ light_manager.lights[1] = LightOf(1)

\* C5 as the spec states it: after add A, add B, add C, remove_light(1),
\* add D the new light is in slot 1 and sync_to_gpu() lists A, C, D.
C5_ScenarioOrderAsStated ==
    scn_pc = 6 =>
        /\ add_ret = Some(1)
        /\ sync_to_gpu(light_manager).num_lights = 3
        /\ \A k \in Slots :
             sync_to_gpu(light_manager).lights[k] =
                 IF k = 0 THEN scn_in[1]
                 ELSE IF k = 1 THEN scn_in[3]
                 ELSE IF k = 2 THEN scn_in[4]
                 ELSE DefaultLight

\* C5 amended: after the same five calls the new light D is in slot 1 and
\* sync_to_gpu() lists exactly 3 entries in ascending slot order: A, D, C.
C5_ScenarioOrder ==
    scn_pc = 6 =>
        /\ add_ret = Some(1)
        /\ sync_to_gpu(light_manager).num_lights = 3
        /\ \A k \in Slots :
             sync_to_gpu(light_manager).lights[k] =
                 IF k = 0 THEN scn_in[1]
                 ELSE IF k = 1 THEN scn_in[4]
                 ELSE IF k = 2 THEN scn_in[3]
                 ELSE DefaultLight

\* the scenario has run to its end with A, C and D pairwise different
C5_Witness ==
    /\ scn_pc = 6
    /\ scn_in[1] # scn_in[3]
    /\ scn_in[3] # scn_in[4]
    /\ scn_in[1] # scn_in[4]

\* C6: remove_light on an active slot clears its bit, sets dirty and leaves
\* the other bits; on an inactive or out-of-range slot it changes nothing,
\* the dirty flag included.
C6_RemoveLight ==
    LET occ == OccupiedSlots(light_manager) IN
    \A index \in AllIndexes :
        remove_light(light_manager, index) =
            IF index \in occ
            THEN [light_manager EXCEPT !.active_mask = @ - 2 ^ index, !.dirty = TRUE]
            ELSE light_manager

\* C7: update_light stores the position and color and sets dirty when the
\* slot is active and changes nothing otherwise; it never changes the mask
\* or another slot.
C7_UpdateLight ==
    LET occ == OccupiedSlots(light_manager) IN
    \A v \in UpdateValues :
        LET stored == LightOf(v) IN
        \A index \in AllIndexes :
            update_light(light_manager, index, PosOf(v), ColorOf(v)) =
                IF index \in occ
                THEN [lights      |-> [light_manager.lights EXCEPT ![index] = stored],
                      active_mask |-> light_manager.active_mask,
                      dirty       |-> TRUE]
                ELSE light_manager

\* an update_light call has stored its input in the active slot 0 while an
\* update_light call on a removed slot has left that slot's older light
C7_Witness ==
    /\ Occupied(light_manager, 0)
    /\ light_manager.lights[0] = LightOf(NumLightValues + 1)
    /\ ~light_manager.dirty

(***************************************************************************)
(* Vocabulary of the particle claims                                       *)
(***************************************************************************)
Systems == SystemKeys(particle_system_manager)
Sys(k) == SystemAt(particle_system_manager, k)
Dirty(k) == Sys(k).needs_rebuild
\* the time since the last mark_dirty (or the construction) is at least the
\* debounce window
WindowPassed(k) == Sys(k).last_edit_time >= DEBOUNCE_MS * TicksPerMs
\* the instance count the params advertise
Advertised(k) ==
    IF k[1] = "Grid" THEN Sys(k).params.rows * Sys(k).params.rows
    ELSE Sys(k).params.count
\* the system under key k is the one the latest step has rebuilt
JustRebuilt(k) ==
    k \in DOMAIN rebuilt /\ k \in Systems /\ burst[k].rebuilds >= 1

\* C8: needs_rebuild() is true exactly when the system's dirty flag is set
\* and at least the debounce window has passed since its last mark_dirty;
\* and every system a frame rebuilds was, when the frame began, dirty and
\* last edited at least one debounce window ago.
C8_NeedsRebuild ==
    /\ [](\A k \in Systems :
            needs_rebuild(Sys(k)) <=> (Dirty(k) /\ WindowPassed(k)))
    /\ [][\A k \in DOMAIN rebuilt' :
            k \in Systems /\ Dirty(k) /\ WindowPassed(k)]_vars

\* a frame has rebuilt a system, and another frame has left a dirty system
\* alone: the state right after a rebuild
C8_Witness ==
    \E k \in DOMAIN rebuilt : k \in Systems /\ ~Dirty(k) /\ burst[k].rebuilds = 1

\* C9: the mark_dirty calls of one burst (each less than a debounce window
\* after the one before) are answered by exactly one rebuild: never by more
\* than one, and by one in the first frame that is rendered on a configured
\* surface once the debounce window has passed since the last of them, the
\* system staying dirty until then; needs_rebuild() is false right after
\* rebuild() and as long as no mark_dirty follows.
C9_Coalescing ==
    /\ [](\A k \in Systems :
            /\ burst[k].rebuilds <= 1
            /\ burst[k].rebuilds = 1 => ~needs_rebuild(Sys(k)) /\ ~Dirty(k)
            /\ burst[k].marks = 0 => ~Dirty(k)
            /\ (burst[k].marks >= 1 /\ burst[k].rebuilds = 0) => Dirty(k)
            /\ ~needs_rebuild(SystemAt(rebuild(particle_system_manager, k), k)))
    /\ [][\A k \in Systems :
                (is_surface_configured /\ burst[k].marks >= 1
                    /\ burst[k].rebuilds = 0 /\ WindowPassed(k))
                  => (k \in DOMAIN rebuilt' \/ ~Render)]_vars

\* several mark_dirty calls of one burst have been answered by one rebuild
C9_Witness ==
    \E k \in Systems : burst[k].marks = 2 /\ burst[k].rebuilds = 1

\* C10 as stated: a rebuild that leaves the instance count unchanged keeps
\* the buffer object, one that changes it replaces the buffer.
C10_RebuildInPlaceAsStated ==
    \A k \in DOMAIN rebuilt :
        JustRebuilt(k) =>
            IF rebuilt[k].len = Sys(k).instance_buffer.len
            THEN BufferId(Sys(k).instance_buffer) = BufferId(rebuilt[k])
            ELSE BufferId(Sys(k).instance_buffer) # BufferId(rebuilt[k])

\* C10: rebuild() regenerates the instances from the current params, sets
\* num_instances to their number, clears the dirty flag, and always replaces
\* the instance buffer by a newly created one of that size, whether or not
\* the count has changed.
C10_RebuildReplacesBuffer ==
    /\ \A k \in DOMAIN rebuilt :
          JustRebuilt(k) =>
              /\ BufferId(Sys(k).instance_buffer) # BufferId(rebuilt[k])
              /\ Sys(k).instance_buffer.len = Sys(k).num_instances
              /\ ~burst[k].edited =>
                    ~Dirty(k) /\ Sys(k).num_instances = Advertised(k)
    /\ \A k \in Systems :
          LET after == SystemAt(rebuild(particle_system_manager, k), k) IN
          after = [Sys(k) EXCEPT
                      !.num_instances = Advertised(k),
                      !.instance_buffer = [after.instance_buffer EXCEPT
                                              !.len = Advertised(k)],
                      !.needs_rebuild = FALSE]
          /\ BufferId(after.instance_buffer)
                \notin {BufferId(b) : b \in LiveBuffers(particle_system_manager)}

\* a frame has rebuilt a system whose instance count did not change, and
\* the system has a new buffer
C10_Witness ==
    \E k \in DOMAIN rebuilt :
        /\ JustRebuilt(k)
        /\ rebuilt[k].len = Sys(k).instance_buffer.len
        /\ BufferId(rebuilt[k]) # BufferId(Sys(k).instance_buffer)

\* C11 as stated: every change of a system's params, through update_params
\* or through a slider, leaves the system dirty with a fresh timestamp.
C11_EveryEditMarksDirty ==
    \A k \in Systems :
        /\ \A params \in ParamsInputs(k) :
              params # Sys(k).params =>
                  LET after == update_params(Sys(k), k, params) IN
                  after.needs_rebuild /\ after.last_edit_time = InstantNow
        /\ \A field \in SliderFields(k) : \A v \in SliderInputs(field) :
              Sys(k).params[field] # v =>
                  LET after == ui_slider(Sys(k), field, v) IN
                  after.needs_rebuild /\ after.last_edit_time = InstantNow

\* C11, what holds: update_params stores the params it is given and marks
\* the system dirty (flag set, timestamp refreshed) exactly when rows (count)
\* differs from the old value, leaving flag and timestamp alone otherwise;
\* every slider edit stores the value and marks the system dirty; mark_dirty
\* sets the flag and refreshes the timestamp, and calling it twice at one
\* instant is the same as calling it once.
C11_EditsMarkDirty ==
    \A k \in Systems :
        LET size == IF k[1] = "Grid" THEN "rows" ELSE "count" IN
        /\ \A params \in ParamsInputs(k) :
              update_params(Sys(k), k, params) =
                  IF params[size] # Sys(k).params[size]
                  THEN [Sys(k) EXCEPT !.params = params,
                                      !.needs_rebuild = TRUE,
                                      !.last_edit_time = InstantNow]
                  ELSE [Sys(k) EXCEPT !.params = params]
        /\ \A field \in SliderFields(k) : \A v \in SliderInputs(field) :
              ui_slider(Sys(k), field, v) =
                  [Sys(k) EXCEPT !.params[field] = v,
                                 !.needs_rebuild = TRUE,
                                 !.last_edit_time = InstantNow]
        /\ mark_dirty(Sys(k)) = [Sys(k) EXCEPT !.needs_rebuild = TRUE,
                                               !.last_edit_time = InstantNow]
        /\ mark_dirty(mark_dirty(Sys(k))) = mark_dirty(Sys(k))

\* a system that was clean, with a timestamp a window old, has been edited:
\* it is dirty with a fresh timestamp and still draws its old instance count
C11_Witness ==
    \E k \in Systems :
        /\ Dirty(k)
        /\ Sys(k).last_edit_time = InstantNow
        /\ Sys(k).num_instances # Advertised(k)
        /\ Sys(k).instance_buffer.serial = 1

\* the grid systems and the sphere systems of the manager
GridSystems == {k \in Systems : k[1] = "Grid"}
SphereSystems == {k \in Systems : k[1] = "Sphere"}
\* the cells of a rows x rows grid, x outermost
GridCells(rows) ==
    [i \in 1 .. rows * rows |->
        grid_instance((i - 1) \div rows, (i - 1) % rows, rows)]

\* C12: for every rows >= 1, whatever spacing and center, the grid generator
\* called with count = rows * rows returns exactly rows * rows instances, one
\* per cell; a grid system has num_instances = rows * rows after new() and
\* after rebuild().
C12_GridCardinality ==
    /\ \A params \in GridParamsInputs :
          /\ Len(generate_grid_instances(params.rows * params.rows, params))
                = params.rows * params.rows
          /\ GridParticleSystemNew({}, MainName, params).num_instances
                = params.rows * params.rows
    /\ \A k \in GridSystems :
          LET rows == Sys(k).params.rows IN
          rows >= 1 =>
              /\ generate_grid_instances(rows * rows, Sys(k).params) = GridCells(rows)
              /\ grid_rebuild(Sys(k), LiveBuffers(particle_system_manager)).num_instances
                    = rows * rows
              /\ ~Dirty(k) => Sys(k).num_instances = rows * rows

\* a grid whose rows were changed has been rebuilt
C12_Witness ==
    \E k \in GridSystems :
        /\ ~Dirty(k)
        /\ Sys(k).instance_buffer.serial = 1
        /\ Sys(k).params.rows = MaxRows
        /\ Sys(k).num_instances = MaxRows * MaxRows
        /\ Sys(k).instance_buffer.len = MaxRows * MaxRows

\* C13: for every count >= 1, whatever radius and center, the sphere
\* generator returns exactly count instances, one for each i in 0 .. count-1;
\* a sphere system has num_instances = count after new() and after rebuild().
C13_SphereCardinality ==
    /\ \A params \in SphereParamsInputs :
          /\ Len(generate_sphere_instances(params)) = params.count
          /\ SphereParticleSystemNew({}, MainName, params).num_instances
                = params.count
    /\ \A k \in SphereSystems :
          LET count == Sys(k).params.count IN
          count >= 1 =>
              /\ DOMAIN generate_sphere_instances(Sys(k).params) = 1 .. count
              /\ Len(generate_sphere_instances(Sys(k).params)) = count
              /\ sphere_rebuild(Sys(k), LiveBuffers(particle_system_manager)).num_instances
                    = count
              /\ ~Dirty(k) => Sys(k).num_instances = count

\* a sphere whose count was changed has been rebuilt
C13_Witness ==
    \E k \in SphereSystems :
        /\ ~Dirty(k)
        /\ Sys(k).instance_buffer.serial = 1
        /\ Sys(k).params.count = MaxCount
        /\ Sys(k).num_instances = MaxCount
        /\ Sys(k).instance_buffer.len = MaxCount

\* the instances of grid system k as its params generate them, and the cell
\* of the i-th of them
GridInstances(k) ==
    generate_grid_instances(Sys(k).params.rows * Sys(k).params.rows, Sys(k).params)
CellX(k, i) == (i - 1) \div Sys(k).params.rows
CellZ(k, i) == (i - 1) % Sys(k).params.rows
\* the instances among insts that have the identity rotation
IdentityCells(insts) == {i \in DOMAIN insts : insts[i].identity_rotation}
\* four times the squared magnitude of a position kept in halves
Magnitude2x4(p2) == p2[1] * p2[1] + p2[2] * p2[2] + p2[3] * p2[3]

\* C14 as stated: a cell gets the identity rotation exactly when its
\* displaced position has squared magnitude < 0.001, and a grid with even
\* rows has no such cell.
C14_CenterCellAsStated ==
    \A k \in GridSystems :
        LET rows == Sys(k).params.rows
            insts == GridInstances(k)
        IN /\ \A i \in DOMAIN insts :
                 /\ insts[i].position2
                       = <<2 * CellX(k, i) - rows, 0, 2 * CellZ(k, i) - rows>>
                 /\ insts[i].identity_rotation
                       <=> 1000 * Magnitude2x4(insts[i].position2) < 4
           /\ rows % 2 = 0 => IdentityCells(insts) = {}

\* C14: a cell (x, z) gets the identity rotation exactly when its displaced
\* position (x - rows/2, 0, z - rows/2) has squared magnitude < 0.001, which
\* is when x = z = rows/2: a grid with even rows has exactly one such cell,
\* the cell (rows/2, rows/2), and a grid with odd rows has none.
C14_CenterCell ==
    \A k \in GridSystems :
        LET rows == Sys(k).params.rows
            insts == GridInstances(k)
        IN /\ \A i \in DOMAIN insts :
                 /\ insts[i].position2
                       = <<2 * CellX(k, i) - rows, 0, 2 * CellZ(k, i) - rows>>
                 /\ insts[i].identity_rotation
                       <=> 1000 * Magnitude2x4(insts[i].position2) < 4
                 /\ insts[i].identity_rotation
                       <=> (2 * CellX(k, i) = rows /\ 2 * CellZ(k, i) = rows)
           /\ rows % 2 = 1 => IdentityCells(insts) = {}
           /\ rows % 2 = 0 =>
                 IdentityCells(insts) = {(rows \div 2) * rows + (rows \div 2) + 1}

\* a grid with even rows has been rebuilt, and one of its cells has the
\* identity rotation
C14_Witness ==
    \E k \in GridSystems :
        /\ Sys(k).params.rows % 2 = 0
        /\ ~Dirty(k)
        /\ Sys(k).instance_buffer.serial = 1
        /\ Sys(k).num_instances = Sys(k).params.rows * Sys(k).params.rows
        /\ IdentityCells(GridInstances(k)) # {}

(***************************************************************************)
(* ParticleSystemManager: keys, count and names                            *)
(***************************************************************************)
\* the systems add_grid and add_sphere may be handed under a name
GridSystemInputs(self, name) ==
    {GridParticleSystemNew(LiveBuffers(self), name,
                           [rows |-> r, spacing |-> 1, center |-> <<0, 0, 0>>]) :
         r \in 1 .. 2}
SphereSystemInputs(self, name) ==
    {SphereParticleSystemNew(LiveBuffers(self), name,
                             [count |-> c, radius |-> 1, center |-> <<0, 0, 0>>]) :
         c \in 1 .. 2}
\* the systems reachable under a name, through the getters of either kind
SystemsNamed(self, name) ==
    {<<"Grid", get_grid(self, name)>> : x \in {y \in {0} : get_grid(self, name) # None}}
        \cup {<<"Sphere", get_sphere(self, name)>> :
                  x \in {y \in {0} : get_sphere(self, name) # None}}
\* no name is stored under both kinds, and every stored name is recorded
UniqueKeys(self) ==
    /\ grids_names(self) \cap spheres_names(self) = {}
    /\ grids_names(self) \cup spheres_names(self) = all_names(self)

\* C15 (as stated): each name maps to exactly one system; an add under a name
\* in use replaces the previous system whatever its kind; count() is the
\* number of distinct names and the size of all_names(); iterating all systems
\* yields each name at most once.
C15_UniqueKeysAsStated ==
    LET psm == particle_system_manager
    IN /\ \A name \in all_names(psm) : Cardinality(SystemsNamed(psm, name)) = 1
       /\ manager_count(psm) = Cardinality(all_names(psm))
       /\ manager_count(psm) = Cardinality(grids_names(psm) \cup spheres_names(psm))
       /\ grids_names(psm) \cap spheres_names(psm) = {}
       /\ \A name \in ManagerNames :
             /\ \A system \in GridSystemInputs(psm, name) :
                   SystemsNamed(add_grid(psm, name, system), name)
                       = {<<"Grid", Some(system)>>}
             /\ \A system \in SphereSystemInputs(psm, name) :
                   SystemsNamed(add_sphere(psm, name, system), name)
                       = {<<"Sphere", Some(system)>>}

\* C15 (what the code provides): keys are unique within a kind only.  An add
\* stores the system under the name in the map of its own kind, replacing what
\* that map held, records the kind as the name's kind and leaves the map of
\* the other kind alone, so a name added under both kinds holds two systems.
\* Every name of all_names() is present in the map of its recorded kind,
\* count() is the sum of the sizes of the two maps, and it is the size of
\* all_names() exactly when no name is stored twice or unrecorded.
C15_KeysUniquePerKind ==
    LET psm == particle_system_manager
    IN /\ \A name \in all_names(psm) :
             /\ get_kind(psm, name) = Some("Grid") => name \in grids_names(psm)
             /\ get_kind(psm, name) = Some("Sphere") => name \in spheres_names(psm)
       /\ manager_count(psm)
              = Cardinality(grids_names(psm)) + Cardinality(spheres_names(psm))
       /\ manager_count(psm) >= Cardinality(all_names(psm))
       /\ UniqueKeys(psm) => manager_count(psm) = Cardinality(all_names(psm))
       /\ \A name \in ManagerNames :
             /\ \A system \in GridSystemInputs(psm, name) :
                   LET after == add_grid(psm, name, system)
                   IN /\ get_grid(after, name) = Some(system)
                      /\ get_kind(after, name) = Some("Grid")
                      /\ get_sphere(after, name) = get_sphere(psm, name)
                      /\ \A other \in ManagerNames \ {name} :
                            /\ get_grid(after, other) = get_grid(psm, other)
                            /\ get_sphere(after, other) = get_sphere(psm, other)
                            /\ get_kind(after, other) = get_kind(psm, other)
             /\ \A system \in SphereSystemInputs(psm, name) :
                   LET after == add_sphere(psm, name, system)
                   IN /\ get_sphere(after, name) = Some(system)
                      /\ get_kind(after, name) = Some("Sphere")
                      /\ get_grid(after, name) = get_grid(psm, name)
                      /\ \A other \in ManagerNames \ {name} :
                            /\ get_grid(after, other) = get_grid(psm, other)
                            /\ get_sphere(after, other) = get_sphere(psm, other)
                            /\ get_kind(after, other) = get_kind(psm, other)

\* a name added as a grid and then as a sphere: two systems, one name
C15_Witness ==
    LET psm == particle_system_manager
    IN \E name \in all_names(psm) :
          /\ get_kind(psm, name) = Some("Sphere")
          /\ get_grid(psm, name) # None
          /\ get_sphere(psm, name) # None
          /\ manager_count(psm) = 2
          /\ Cardinality(all_names(psm)) = 1

(***************************************************************************)
(* ParticleSystemManager::remove                                           *)
(***************************************************************************)
\* every entry under a name other than the given one is the same in both
SameOthers(before, after, name) ==
    \A other \in ManagerNames \ {name} :
        /\ get_grid(after, other) = get_grid(before, other)
        /\ get_sphere(after, other) = get_sphere(before, other)
        /\ get_kind(after, other) = get_kind(before, other)
\* the name is reachable through no getter and no iterator
Unreachable(self, name) ==
    /\ get_kind(self, name) = None
    /\ get_grid(self, name) = None
    /\ get_sphere(self, name) = None
    /\ name \notin grids_names(self) \cup spheres_names(self) \cup all_names(self)

\* C16 (as stated): remove(name) returns true iff a system with that name was
\* present; afterwards the name is reachable through no getter and no
\* iterator, count() is one less when true was returned and every other entry
\* is unchanged; for an absent name it returns false and changes nothing.
C16_RemoveAsStated ==
    LET psm == particle_system_manager
    IN \A name \in ManagerNames :
          LET r == remove(psm, name)
          IN /\ r.ret = (SystemsNamed(psm, name) # {})
             /\ Unreachable(r.self, name)
             /\ r.ret => manager_count(r.self) = manager_count(psm) - 1
             /\ SameOthers(psm, r.self, name)
             /\ ~r.ret => r.self = psm

\* C16 (what the code provides): remove(name) returns true iff the name is in
\* all_names(); it then drops the name from all_names() and from the map of
\* its recorded kind, leaves the map of the other kind alone, and count() is
\* one less; every entry under another name is unchanged; for a name not in
\* all_names() it returns false and changes nothing.  When no name is stored
\* twice or unrecorded, this is the statement of the spec.
C16_RemoveByRecordedKind ==
    LET psm == particle_system_manager
    IN \A name \in ManagerNames :
          LET r == remove(psm, name)
          IN /\ r.ret = (name \in all_names(psm))
             /\ get_kind(r.self, name) = None
             /\ get_kind(psm, name) = Some("Grid") =>
                   /\ get_grid(r.self, name) = None
                   /\ get_sphere(r.self, name) = get_sphere(psm, name)
             /\ get_kind(psm, name) = Some("Sphere") =>
                   /\ get_sphere(r.self, name) = None
                   /\ get_grid(r.self, name) = get_grid(psm, name)
             /\ r.ret => manager_count(r.self) = manager_count(psm) - 1
             /\ SameOthers(psm, r.self, name)
             /\ ~r.ret => r.self = psm
             /\ UniqueKeys(psm) =>
                   /\ r.ret = (SystemsNamed(psm, name) # {})
                   /\ Unreachable(r.self, name)
                   /\ UniqueKeys(r.self)

\* a name removed after it was added under both kinds: the grid stays behind
C16_Witness ==
    LET psm == particle_system_manager
    IN \E name \in ManagerNames :
          /\ name \notin all_names(psm)
          /\ get_grid(psm, name) # None
          /\ get_sphere(psm, name) = None
          /\ ~remove(psm, name).ret

(***************************************************************************)
(* The model load pipeline                                                 *)
(***************************************************************************)
\* the messages in the channel that the loads of a path have sent
MessagesOf(path) ==
    {i \in 1 .. Len(loaded_model_channel) : loaded_model_channel[i].of = path}
\* the loads of a path that are dispatched and not yet drained
Outstanding(path) == load_workers[path] + Cardinality(MessagesOf(path))
\* the paths for which the step dispatches a load
Dispatched == {path \in ModelPathInputs : load_workers'[path] > load_workers[path]}
HasQuote(path) == \E i \in 1 .. Len(path) : path[i] = "'"
\* the part of a path in front of its first quote
BeforeQuote(path) ==
    SubSeq(path, 1, (CHOOSE i \in 1 .. Len(path) :
                        path[i] = "'" /\ \A j \in 1 .. i - 1 : path[j] # "'") - 1)
\* the paths with a quote that are in the in-flight set although their load
\* has finished and been drained, and whose text in front of the quote is the
\* given path
StuckAliases(path) ==
    {q \in in_flight_model_loads :
        HasQuote(q) /\ Outstanding(q) = 0 /\ BeforeQuote(q) = path}

\* C17 (as stated): for every path at most one background load is outstanding
\* at any time, whatever the sequence of requests, completions and failures.
C17_OneLoadPerPathAsStated ==
    \A path \in ModelPathInputs : Outstanding(path) <= 1

\* C17 (what the code provides): update() dispatches a load only for a path
\* that is not a key of the model registry and that is not in the in-flight
\* set when the channel has been drained; a dispatched path that was in the
\* in-flight set before the update has a failure message in the channel.  At
\* most one load is outstanding for a path of which no alias with a quote is
\* stuck in the in-flight set; every stuck alias allows one load more.
C17_IdempotentEnqueue ==
    /\ [](\A path \in ModelPathInputs :
             Outstanding(path) <= 1 + Cardinality(StuckAliases(path)))
    /\ [][\A path \in Dispatched :
             /\ path \in pending_model_loads
             /\ path \notin DOMAIN models /\ path \notin DOMAIN models'
             /\ path \in in_flight_model_loads'
             /\ path \in in_flight_model_loads =>
                   \E i \in 1 .. Len(loaded_model_channel) :
                      ~loaded_model_channel[i].result.ok]_vars

\* two loads of one path outstanding, behind a path with a quote whose failed
\* load has left it in the in-flight set
C17_Witness ==
    \E path \in ModelPathInputs :
        /\ Outstanding(path) = 2
        /\ StuckAliases(path) # {}
        /\ path \in in_flight_model_loads

(***************************************************************************)
(* Load failure recovery                                                   *)
(***************************************************************************)
\* the paths whose failure, and whose success, is waiting in the channel
FailedPaths ==
    {loaded_model_channel[i].of : i \in
        {j \in 1 .. Len(loaded_model_channel) : ~loaded_model_channel[j].result.ok}}
SucceededPaths ==
    {loaded_model_channel[i].of : i \in
        {j \in 1 .. Len(loaded_model_channel) : loaded_model_channel[j].result.ok}}
\* the path between the first two quotes of the error message of a load
PathInMessage(path) == IF HasQuote(path) THEN BeforeQuote(path) ELSE path

\* C18 (as stated): for every path p, the update() that drains the failure
\* of p's load removes exactly p from the in-flight set and leaves the model
\* and material registries unchanged, so that a later request for p
\* dispatches a new load; no path is in the in-flight set after an update
\* unless a load of it is running.
C18_FailureRecoveryAsStated ==
    [][Update =>
          /\ \A path \in FailedPaths :
                path \in in_flight_model_loads' => path \in Dispatched
          /\ in_flight_model_loads' =
                (in_flight_model_loads \ (FailedPaths \cup SucceededPaths))
                    \cup Dispatched
          /\ SucceededPaths = {} => models' = models /\ materials' = materials
          /\ \A path \in in_flight_model_loads' : load_workers'[path] >= 1]_vars

\* C18 (what the code provides): the update() that drains the failure of p's
\* load removes from the in-flight set the text between the first two quotes
\* of the error message, which is p when p has no quote in it and the part of
\* p in front of its first quote otherwise, and leaves the registries
\* unchanged.  A path without a quote is out of the in-flight set after the
\* drain of its failure unless the same update dispatches it anew, and is in
\* the in-flight set after an update only when a load of it is running; a
\* path with a quote stays in the in-flight set once its load has failed.
C18_FailureRecovery ==
    [][Update =>
          /\ \A path \in FailedPaths :
                /\ PathInMessage(path) \in in_flight_model_loads' =>
                      PathInMessage(path) \in Dispatched
                /\ HasQuote(path) /\ path \in in_flight_model_loads
                      /\ path \notin SucceededPaths
                      => path \in in_flight_model_loads' /\ path \notin Dispatched
          /\ in_flight_model_loads' =
                (in_flight_model_loads
                    \ ({PathInMessage(path) : path \in FailedPaths}
                           \cup SucceededPaths))
                    \cup Dispatched
          /\ SucceededPaths = {} => models' = models /\ materials' = materials
          /\ \A path \in in_flight_model_loads' :
                ~HasQuote(path) => load_workers'[path] >= 1]_vars

\* a path with a quote whose load has failed and been drained: still in the
\* in-flight set, requested again, and no load of it running
C18_Witness ==
    \E path \in in_flight_model_loads :
        /\ HasQuote(path)
        /\ Outstanding(path) = 0
        /\ path \in pending_model_loads
        /\ path \notin DOMAIN models

(***************************************************************************)
(* Load success registration                                               *)
(***************************************************************************)
\* the positions of the success messages in the channel
OkMessages ==
    {i \in 1 .. Len(loaded_model_channel) : loaded_model_channel[i].result.ok}
\* the last success message in the channel that carries the material key
LastProducer(key) ==
    CHOOSE i \in OkMessages :
        /\ key \in DOMAIN loaded_model_channel[i].result.materials
        /\ \A j \in OkMessages :
              key \in DOMAIN loaded_model_channel[j].result.materials => j <= i

\* C19: the update() that drains the success message of a load of path p
\* inserts the model under key p, inserts every material of the message into
\* the material registry, and removes p from the in-flight set, all in that
\* update; a path becomes a key of the model registry only in an update()
\* that drains a success message of its load, and no other material changes.
C19_SuccessRegistration ==
    [][/\ Update =>
             /\ \A i \in OkMessages :
                   LET msg == loaded_model_channel[i].result
                   IN /\ msg.path = loaded_model_channel[i].of
                      /\ msg.path \in DOMAIN models'
                      /\ models'[msg.path] = msg.loaded_model
                      /\ msg.path \notin in_flight_model_loads'
                      /\ \A key \in DOMAIN msg.materials :
                            /\ key \in DOMAIN materials'
                            /\ materials'[key] =
                                  loaded_model_channel[LastProducer(key)].result
                                      .materials[key]
             /\ \A key \in DOMAIN materials' :
                   (\A i \in OkMessages :
                       key \notin DOMAIN loaded_model_channel[i].result.materials)
                   => key \in DOMAIN materials /\ materials'[key] = materials[key]
       /\ \A path \in DOMAIN models' \ DOMAIN models :
             Update /\ path \in SucceededPaths
       /\ \A path \in DOMAIN models : path \in DOMAIN models']_vars

\* a model that a background load has registered, with its materials, and
\* that is out of the in-flight set
C19_Witness ==
    \E path \in DOMAIN models \ {INITIAL_MODEL_PATH} :
        /\ path \notin in_flight_model_loads
        /\ Outstanding(path) = 0
        /\ models[path] = LoadedModel(path)
        /\ \A key \in DOMAIN LoadedMaterials(path) :
              key \in DOMAIN materials /\ materials[key] = LoadedMaterials(path)[key]

(***************************************************************************)
(* create_material                                                         *)
(***************************************************************************)
AlreadyExists(key) == <<"Err", <<"Material ", "'">> \o key \o <<"'", " already exists">>>>

\* C20: create_material(name, ..) when the key custom/<name> is in the material
\* registry returns an error and leaves the registry unchanged, whatever the
\* texture and the tint of the call; a step in which create_material returns
\* this error changes no material, and a step in which it returns Ok adds
\* exactly the new key.
C20_CreateRejectsDuplicate ==
    /\ [](\A name \in MaterialNameInputs :
             CustomKey(name) \in DOMAIN materials =>
                \A texture_path \in textures \cup {MissingPng}, color \in ColorInputs :
                   LET made == create_material(materials, textures, name,
                                               texture_path, color)
                   IN /\ made.ret = AlreadyExists(CustomKey(name))
                      /\ made.materials = materials)
    /\ [][create_ret' # create_ret =>
             \/ /\ create_ret'[1] = "Err"
                /\ materials' = materials
             \/ /\ create_ret'[1] = "Ok"
                /\ create_ret'[2] \notin DOMAIN materials
                /\ DOMAIN materials' = DOMAIN materials \cup {create_ret'[2]}
                /\ materials'[create_ret'[2]].source = "Custom"
                /\ \A key \in DOMAIN materials : materials'[key] = materials[key]]_vars

\* "foo" created, then created again: the second call has returned the
\* error and the first material is in the registry
C20_Witness ==
    \E name \in MaterialNameInputs :
        /\ create_ret = AlreadyExists(CustomKey(name))
        /\ CustomKey(name) \in DOMAIN materials
        /\ materials[CustomKey(name)].source = "Custom"
        /\ materials[CustomKey(name)].name = name

(***************************************************************************)
(* create_material: the texture must be registered                         *)
(***************************************************************************)
\* C21: create_material fails and leaves the material registry and the
\* texture registry unchanged when the texture path is not in the texture
\* registry; it returns Ok only when the key custom/<name> is new and the
\* texture is registered, and then it inserts exactly one material, under
\* the key custom/<name>, with provenance Custom, the given tint and the
\* given texture path.
C21_CreateNeedsTexture ==
    /\ [](\A name \in MaterialNameInputs, texture_path \in TextureInputs,
             color \in ColorInputs :
             LET made == create_material(materials, textures, name, texture_path, color)
                 key == CustomKey(name)
             IN /\ texture_path \notin textures =>
                      made.ret[1] = "Err" /\ made.materials = materials
                /\ made.ret[1] = "Ok" <=>
                      (key \notin DOMAIN materials /\ texture_path \in textures)
                /\ made.ret[1] = "Ok" =>
                      /\ made.ret[2] = key
                      /\ DOMAIN made.materials = DOMAIN materials \cup {key}
                      /\ Cardinality(DOMAIN made.materials)
                            = Cardinality(DOMAIN materials) + 1
                      /\ made.materials[key] =
                            [name |-> name, texture_path |-> texture_path,
                             color |-> color, source |-> "Custom"]
                      /\ \A other \in DOMAIN materials :
                            made.materials[other] = materials[other])
    /\ [][create_ret' # create_ret => textures' = textures]_vars

\* create_material has been refused for a texture that is not registered,
\* under a name that is free, and a material has been created before
C21_Witness ==
    /\ create_ret = TextureNotFound(MissingPng)
    /\ \E name \in MaterialNameInputs :
          /\ CustomKey(name) \notin DOMAIN materials
          /\ \E other \in MaterialNameInputs :
                /\ CustomKey(other) \in DOMAIN materials
                /\ materials[CustomKey(other)].source = "Custom"

C23_ChangeTextureReplacesOne ==
    /\ [](\A material_key \in MaterialKeyInputs, new_texture_path \in TextureInputs :
             LET changed == change_material_texture(materials, textures,
                                                    material_key, new_texture_path)
             IN /\ changed.ret[1] = "Ok" <=>
                      (material_key \in DOMAIN materials
                           /\ new_texture_path \in textures)
                /\ changed.ret[1] = "Ok" =>
                      /\ DOMAIN changed.materials = DOMAIN materials
                      /\ changed.materials[material_key] =
                            [materials[material_key] EXCEPT
                                !.texture_path = new_texture_path]
                      /\ \A other \in DOMAIN materials \ {material_key} :
                            changed.materials[other] = materials[other])
    /\ [][change_ret' # change_ret => textures' = textures]_vars

\* a custom material with a tint other than the default has been given
\* another texture than the one it was created with, and kept its tint
C23_Witness ==
    /\ change_ret = OkUnit
    /\ \E name \in MaterialNameInputs :
          /\ CustomKey(name) \in DOMAIN materials
          /\ materials[CustomKey(name)].color # 1
          /\ materials[CustomKey(name)].source = "Custom"
          /\ \E other \in DOMAIN materials :
                /\ materials[other].source = "Model"
                /\ materials[other].texture_path = WhitePng
                /\ materials[CustomKey(name)].texture_path = LoadedTexture(INITIAL_MODEL_PATH)

(***************************************************************************)
(* Provenance and editability                                              *)
(***************************************************************************)
\* C24 (as stated): System materials are read-only.  is_material_editable is
\* false for a System material and true for a Model or Custom one,
\* is_material_deletable is true only for a Custom one, and no sequence of
\* the editor's actions (tint change, texture change) modifies the tint or
\* the texture of a System material such as "default".
C24_SystemReadOnly ==
    /\ [](\A key \in DOMAIN materials :
             /\ is_material_editable(materials, key) =
                   (materials[key].source \in {"Model", "Custom"})
             /\ is_material_deletable(materials, key) =
                   (materials[key].source = "Custom"))
    /\ [][\A key \in DOMAIN materials :
             materials[key].source = "System"
             => /\ key \in DOMAIN materials'
                /\ materials'[key].color = materials[key].color
                /\ materials'[key].texture_path = materials[key].texture_path]_vars

\* C24 (what holds): the two predicates answer by provenance alone, System
\* is the only provenance that is not editable, a key that is not in the
\* registry is neither editable nor deletable, and the editor's actions
\* never change the provenance or the name of a material or the set of keys.
C24_PredicatesByProvenance ==
    /\ [](/\ \A key \in DOMAIN materials :
                /\ is_material_editable(materials, key) =
                      (materials[key].source \in {"Model", "Custom"})
                /\ is_material_deletable(materials, key) =
                      (materials[key].source = "Custom")
                /\ is_material_deletable(materials, key)
                      => is_material_editable(materials, key)
          /\ ~is_material_editable(materials, DEFAULT_MATERIAL_KEY)
          /\ \A name \in MaterialNameInputs :
                CustomKey(name) \notin DOMAIN materials
                => /\ ~is_material_editable(materials, CustomKey(name))
                   /\ ~is_material_deletable(materials, CustomKey(name)))
    /\ [][/\ DOMAIN materials \subseteq DOMAIN materials'
          /\ \A key \in DOMAIN materials :
                /\ materials'[key].source = materials[key].source
                /\ materials'[key].name = materials[key].name]_vars

\* the System material "default" carries another texture and another tint
\* than State::new gave it, while the predicate still calls it not editable
C24_Witness ==
    /\ DEFAULT_MATERIAL_KEY \in DOMAIN materials
    /\ materials[DEFAULT_MATERIAL_KEY].source = "System"
    /\ ~is_material_editable(materials, DEFAULT_MATERIAL_KEY)
    /\ materials[DEFAULT_MATERIAL_KEY].texture_path # WhitePng
    /\ materials[DEFAULT_MATERIAL_KEY].color # 1
    /\ change_ret = OkUnit

(***************************************************************************)
(* The texture registry                                                    *)
(***************************************************************************)
\* C25 (as stated): textures are deduplicated by path.  The registry holds
\* at most one GPU texture per path, and the loader and the upload are
\* invoked at most once per path: every registered path has been uploaded
\* exactly once, and no path more than once.
C25_UploadOncePerPath ==
    \A texture_path \in TexturePaths :
       /\ texture_uploads[texture_path] <= 1
       /\ texture_path \in textures => texture_uploads[texture_path] = 1

\* C26 (as stated): the check-then-insert of the texture registry is atomic
\* under the lock, so of two loads that race on one path only one uploads:
\* a load that ends when the path has been uploaded already has found the
\* entry and uploads nothing.
C26_RacingLoadsUploadOnce ==
    [][\A path \in ModelPathInputs :
          (load_workers'[path] < load_workers[path]
               /\ texture_uploads[LoadedTexture(path)] >= 1)
          => texture_uploads'[LoadedTexture(path)]
                = texture_uploads[LoadedTexture(path)]]_vars

(***************************************************************************)
(* World serialization                                                     *)
(***************************************************************************)
\* the export of the present state, and of a loaded one, with the systems
\* in a given order
ExportNow(order) ==
    export_world(camera, light_manager, asset_keys, particle_system_manager,
                 clear_color, order)
ExportOf(loaded, order) ==
    export_world(loaded.camera, loaded.light_manager, loaded.asset_keys,
                 loaded.particle_system_manager, loaded.clear_color, order)
Entries(sq) == {sq[i] : i \in 1 .. Len(sq)}

\* two exports agree in the lights, the particle systems and the
\* background, and in the position and the clip planes of the camera
SameScene(a, b) ==
    /\ a.lights = b.lights
    /\ Len(a.particle_systems) = Len(b.particle_systems)
    /\ Entries(a.particle_systems) = Entries(b.particle_systems)
    /\ a.background_color = b.background_color
    /\ a.camera.position = b.camera.position
    /\ a.camera.znear = b.camera.znear
    /\ a.camera.zfar = b.camera.zfar
SameAngles(a, b) ==
    /\ a.camera.yaw_deg = b.camera.yaw_deg
    /\ a.camera.pitch_deg = b.camera.pitch_deg
    /\ a.camera.fovy_deg = b.camera.fovy_deg

\* C27 (as stated): load_world(export_world(s)) is a state whose export
\* equals export_world(s): the same sequence of active lights in ascending
\* slot order with the same model and material, the same particle systems
\* by name, model, material key and generator parameters, the same camera
\* pose and the same background colour.
C27_RoundTrip ==
    \A order \in Orders(SystemKeys(particle_system_manager)) :
       LET data   == ExportNow(order)
           loaded == load_world(StateFields, data)
       IN \A again \in Orders(SystemKeys(loaded.particle_system_manager)) :
             LET data2 == ExportOf(loaded, again)
             IN SameScene(data2, data) /\ SameAngles(data2, data)

\* C27 (what holds): the export of load_world(export_world(s)) has the
\* lights, the particle systems, the background colour, the camera position
\* and the clip planes of export_world(s), in whatever order the systems are
\* listed; and the state that was loaded exports its own angles again.
C27_RoundTripOfScene ==
    \A order \in Orders(SystemKeys(particle_system_manager)) :
       LET data    == ExportNow(order)
           loaded  == load_world(StateFields, data)
       IN \A again \in Orders(SystemKeys(loaded.particle_system_manager)) :
             LET data2   == ExportOf(loaded, again)
                 loaded2 == load_world(StateFields, data2)
             IN /\ SameScene(data2, data)
                /\ loaded2.light_manager = loaded.light_manager
                /\ loaded2.clear_color = loaded.clear_color
                /\ loaded2.asset_keys.systems = loaded.asset_keys.systems

\* a world of two lights has been loaded and the light of slot 0 removed,
\* one name is the name of a grid and of a sphere, and the camera has been
\* turned by the mouse
C27_Witness ==
    /\ light_manager.active_mask = 2
    /\ Cardinality(SystemKeys(particle_system_manager)) >= 2
    /\ \E n \in DOMAIN particle_system_manager.grids :
          n \in DOMAIN particle_system_manager.spheres
    /\ camera.yaw = F32(0, 15774971, 0 - 25)
    /\ asset_keys.light.model_path = TeapotObj

\* the key under which load_world stores an entry of a world
KeyOf(ps_data) == <<ps_data.generator.kind, ps_data.name>>
\* the last entry of a world that has a given key
LastWith(particle_systems, key) ==
    LET at == CHOOSE i \in 1 .. Len(particle_systems) :
                 /\ KeyOf(particle_systems[i]) = key
                 /\ \A j \in (i + 1) .. Len(particle_systems) :
                       KeyOf(particle_systems[j]) # key
    IN particle_systems[at]

\* C28: load_world replaces the particle and the light state as a whole and
\* merges nothing.  Whatever lights and systems there were, afterwards the
\* lights are those of the world, in slots 0, 1, .. in the order of the
\* file, with the model and material of its first light; the systems are
\* those of the world, each with the assets and parameters of the last
\* entry of its name and kind, none of them dirty.  The model, material and
\* texture registries are not cleared.
C28_LoadReplaces ==
    /\ [](\A data \in WorldInputs :
             LET loaded == load_world(StateFields, data)
             IN /\ num_lights(loaded.light_manager) = Len(data.lights)
                /\ \A i \in 1 .. Len(data.lights) :
                      /\ is_active(loaded.light_manager, i - 1)
                      /\ loaded.light_manager.lights[i - 1] =
                            MakeLight(data.lights[i].position, data.lights[i].color)
                /\ ~loaded.light_manager.dirty
                /\ ExportLightsLoop(loaded.light_manager, loaded.asset_keys.light,
                                    0, <<>>) = data.lights
                /\ SystemKeys(loaded.particle_system_manager) =
                      {KeyOf(e) : e \in Entries(data.particle_systems)}
                /\ DOMAIN loaded.asset_keys.systems =
                      SystemKeys(loaded.particle_system_manager)
                /\ \A key \in SystemKeys(loaded.particle_system_manager) :
                      LET e      == LastWith(data.particle_systems, key)
                          system == SystemAt(loaded.particle_system_manager, key)
                      IN /\ system.params = e.generator.params
                         /\ system.name = e.name
                         /\ ~system.needs_rebuild
                         /\ loaded.asset_keys.systems[key] =
                               [model_path |-> e.model, material_key |-> e.material_key])
    /\ [][/\ models' = models
          /\ materials' = materials
          /\ textures' = textures]_vars

\* the world without lights and systems has been loaded into a state that
\* had the system "main": no light, no system, the light manager's assets
\* those of LightManager::new, and the registries as State::new left them
C28_Witness ==
    /\ light_manager.active_mask = 0
    /\ asset_keys.light.model_path = TeapotObj
    /\ SystemKeys(particle_system_manager) = {}
    /\ INITIAL_MODEL_PATH \in DOMAIN models
    /\ DEFAULT_MATERIAL_KEY \in DOMAIN materials
    /\ WhitePng \in textures

(***************************************************************************)
(* Referenced models of a loaded world                                     *)
(***************************************************************************)
\* the step is load_world(data) of one of the world files
IsLoadOf(data) ==
    pending_model_loads' =
        load_world(StateFields, data).pending_model_loads
\* a requested path ends registered, or with its failure in the channel
\* from which the next update() reports it
Settles(path) ==
    (path \in pending_model_loads)
        ~> (path \in DOMAIN models \/ path \in FailedPaths)

\* C29 (as stated): immediately after load_world(w) every model path that w
\* refers to and that is not in the model registry is in the pending-load
\* set, and each of them eventually is registered or its load is reported
\* failed; paths that are registered are not requested again.
C29_ReferencedModelsSettle ==
    /\ [][LoadWorldFile =>
             \E data \in WorldFileInputs :
                /\ IsLoadOf(data)
                /\ \A path \in RequiredModels(data) :
                      IF path \in DOMAIN models
                      THEN path \in pending_model_loads' => path \in pending_model_loads
                      ELSE path \in pending_model_loads']_vars
    /\ \A path \in ModelPathInputs : Settles(path)

\* C29 (what the code provides): after load_world(w) the pending-load set is
\* what it was, and every path of w that is not registered; a path without a
\* quote that is pending ends registered or with its failure reported.
C29_ReferencedModelsRequested ==
    /\ [][LoadWorldFile =>
             \E data \in WorldFileInputs :
                pending_model_loads' =
                    pending_model_loads
                        \cup (RequiredModels(data) \ DOMAIN models)]_vars
    /\ \A path \in {q \in ModelPathInputs : ~HasQuote(q)} : Settles(path)

\* the load of a path with a quote has failed and been drained, and a world
\* that refers to the path is loaded again: the path is pending and in the
\* in-flight set, and no load of it is running
C29_Witness ==
    \E path \in pending_model_loads :
        /\ HasQuote(path)
        /\ path \in in_flight_model_loads
        /\ path \notin DOMAIN models
        /\ Outstanding(path) = 0

(***************************************************************************)
(* Failure of the script call                                              *)
(***************************************************************************)
\* the text is a JSON array of exactly four numbers
IsColorText(text) ==
    /\ Len(text) = 9
    /\ text[1] = "[" /\ text[9] = "]"
    /\ \A i \in {2, 4, 6, 8} : text[i] \in NumberTokens
    /\ \A i \in {3, 5, 7} : text[i] = ","
\* the script call of the frame has returned an error, or no colour
ScriptFailed(r) == ~r.ok \/ ~IsColorText(r.text)

\* C30: when the script call "update" of a frame returns an error, or a
\* value that is no colour, the handler logs a warning and changes nothing
\* else: the clear colour and all other state are what they were.  The
\* handler goes on to update() and then to render(), both of which can run;
\* a failure of the script call inside update() leaves a warning, and the
\* clear colour, the camera and the asset keys as they were.
C30_ScriptFailureAbsorbed ==
    /\ [][redraw.pc = "script" /\ redraw'.pc # "script" =>
             /\ redraw'.pc = "update"
             /\ ScriptFailed(redraw'.result) =>
                   /\ redraw'.warned
                   /\ clear_color' = clear_color
                   /\ UNCHANGED <<lightVars, frameVars, models, materials,
                                  textures, pending_model_loads,
                                  in_flight_model_loads, loaded_model_channel,
                                  load_workers, create_ret, change_ret, camera,
                                  asset_keys, texture_uploads, script_ret>>]_vars
    /\ [][redraw.pc = "update" /\ redraw'.pc # "update" =>
             /\ redraw'.pc = "render"
             /\ redraw'.result = redraw.result
             /\ script_ret' \in {OkUnit} \cup {ScriptWarn(e) : e \in ScriptErrors}
             /\ UNCHANGED <<clear_color, camera, asset_keys>>]_vars
    /\ [](redraw.pc = "update" => ENABLED RedrawUpdate)
    /\ [](redraw.pc = "render" => ENABLED RedrawRender)

\* a frame whose script call failed has been through update(), in which the
\* script call failed as well, and through render(); the clear colour is the
\* one a script set in an earlier frame
C30_Witness ==
    /\ redraw.pc = "script"
    /\ redraw.warned
    /\ ScriptFailed(redraw.result)
    /\ script_ret[1] = "warn"
    /\ is_surface_configured
    /\ clear_color = set_clear_color(<<0 - 5, 12, 5, ColorOne>>)

(***************************************************************************)
(* Generator params                                                        *)
(***************************************************************************)
\* every system of the manager has rows >= 1, or count >= 1
ParamsPositive(self) ==
    /\ \A n \in DOMAIN self.grids : self.grids[n].params.rows >= 1
    /\ \A n \in DOMAIN self.spheres : self.spheres[n].params.count >= 1

\* C31 (as stated): in every reachable state every particle system of the
\* manager has rows >= 1 (grid) or count >= 1 (sphere), whether it was
\* made by an add button, edited by a slider or made by load_world.
C31_GeneratorParamsPositive == ParamsPositive(particle_system_manager)

\* C31 (what the code provides): a frame keeps the params positive: the
\* add buttons make systems of 10 rows and of 1000 instances, the sliders
\* write a value of their range, and the rebuild loop and resize write no
\* params.  Only load_world stores what the file says.
C31_FramesKeepParamsPositive ==
    [][ParamsPositive(particle_system_manager) =>
          \/ ParamsPositive(particle_system_manager')
          \/ ~(Resize \/ Render)]_vars

\* a world with a grid of one row has been loaded and the rows slider has
\* set the grid to 5 rows
C31_Witness ==
    /\ camera = LoadedCamera(FreshView)
    /\ asset_keys.light.model_path = TeapotObj
    /\ \E n \in DOMAIN particle_system_manager.grids :
          /\ particle_system_manager.grids[n].params.rows = GridRowsMin
          /\ particle_system_manager.grids[n].needs_rebuild

(***************************************************************************)
(* The light buffer and the dirty flag                                     *)
(***************************************************************************)
\* C32: update() writes sync_to_gpu() into the light buffer and then clears
\* the dirty flag exactly when the manager is dirty, and writes nothing and
\* leaves the manager as it is otherwise; and whenever the dirty flag is
\* false the light buffer holds sync_to_gpu() of the manager, across the
\* buttons and sliders of the section "Lights", update() and load_world().
C32_LightDirtySync ==
    /\ [](~light_manager.dirty =>
             light_buffer.contents = sync_to_gpu(light_manager))
    /\ [][\/ IF light_manager.dirty
             THEN /\ light_buffer'.written
                  /\ light_buffer'.contents = sync_to_gpu(light_manager)
                  /\ light_manager' = clear_dirty(light_manager)
             ELSE /\ ~light_buffer'.written
                  /\ light_buffer'.contents = light_buffer.contents
                  /\ light_manager' = light_manager
          \/ ~Update]_vars

\* the section "Lights" has added a third light, changed the light of slot
\* 0 and removed the light of slot 1, and update() has written the buffer:
\* two lights in it, the changed one first
C32_Witness ==
    /\ ~light_manager.dirty
    /\ light_buffer.written
    /\ light_manager.active_mask = 5
    /\ light_buffer.contents.num_lights = 2
    /\ light_buffer.contents.lights[0] = MakeLight(PosOf(1), ColorOf(1))
    /\ light_buffer.contents.lights[1] = MakeLight(<<0, 3, 0>>, <<1, 1, 1, 1>>)

\* the step adds or removes a light, or changes a stored light
LightsChange ==
    \/ light_manager'.active_mask # light_manager.active_mask
    \/ light_manager'.lights # light_manager.lights

\* C33 (as stated): when no light has been added, removed or changed since
\* the light buffer was last written, the dirty flag is false, so that the
\* update() of the frame writes nothing; and a step sets the dirty flag
\* only when it changes the lights.
C33_NoRedundantUploads ==
    /\ [](~light_buffer.changed => ~light_manager.dirty)
    /\ [][~light_manager.dirty /\ light_manager'.dirty => LightsChange]_vars

\* C33 (what the code provides): no change of the lights is missed: the
\* step that adds, removes or changes a light sets the dirty flag, or it
\* writes the buffer itself.  The flag is also set when nothing has
\* changed.
C33_ChangesAreUploaded ==
    [][LightsChange => light_manager'.dirty \/ light_buffer'.written]_vars

\* the buffer has been written by update(), and a frame with the section
\* "Lights" open and no input has set the dirty flag again
C33_Witness ==
    /\ light_manager.dirty
    /\ ~light_buffer.changed
    /\ ~light_buffer.written
    /\ light_buffer.contents = sync_to_gpu(light_manager)
    /\ num_lights(light_manager) = MaxPanelLights

(***************************************************************************)
(* The order of the steps of a frame                                       *)
(***************************************************************************)
\* the particle systems as the render pass of render() finds them: after
\* the rebuild loop
AtRenderPass == RenderLoop.self

Finishing == {path \in ModelPathInputs : load_workers'[path] < load_workers[path]}

PanelKeys ==
    {<<"Grid", MainName>>, <<"Grid", GridName(0)>>, <<"Sphere", SphereName(0)>>}

IsDirty(k) ==
    /\ k \in SystemKeys(particle_system_manager)
    /\ SystemAt(particle_system_manager, k).needs_rebuild

\* C36: a particle system that is dirty while the surface is configured is
\* rebuilt by a later frame, unless it is removed or marked dirty again
\* before that.
C36_DirtyIsRebuilt ==
    \A k \in PanelKeys :
        (is_surface_configured /\ IsDirty(k) /\ ~burst[k].edited)
            ~> \/ k \in DOMAIN rebuilt
               \/ k \notin SystemKeys(particle_system_manager)
               \/ burst[k].edited

\* a dirty system waits at the start of its debounce window, the surface
\* configured and the sliders at rest
C36_Witness ==
    \E k \in PanelKeys :
        /\ is_surface_configured
        /\ IsDirty(k)
        /\ ~burst[k].edited
        /\ ~needs_rebuild(SystemAt(particle_system_manager, k))
        /\ k \notin DOMAIN rebuilt

(***************************************************************************)
(* The instance count of a particle system and its params                  *)
(***************************************************************************)
\* C37: a particle system whose dirty flag is false has as many instances
\* as its params advertise: rows * rows for a grid, count for a sphere.
C37_CleanMatchesParams ==
    \A k \in Systems :
        ~Dirty(k) =>
            /\ Sys(k).num_instances = Advertised(k)
            /\ Sys(k).instance_buffer.len = Sys(k).num_instances

\* a system whose generator slider has been dragged has just been rebuilt
\* by render(), and another edit of it has not happened
C37_Witness ==
    \E k \in SystemKeys(particle_system_manager) :
        /\ k \in DOMAIN rebuilt
        /\ burst[k].marks >= 1
        /\ burst[k].rebuilds >= 1
        /\ ~SystemAt(particle_system_manager, k).needs_rebuild

(***************************************************************************)
(* The in-flight set and the model registry                                *)
(***************************************************************************)
\* C38: no path is both a key of the model registry and in the in-flight
\* set: update() ends with the two disjoint, and neither render() with its
\* UI actions nor a background load brings them together.
C38_InFlightNotRegistered ==
    /\ [](in_flight_model_loads \cap DOMAIN models = {})
    /\ [][(in_flight_model_loads' \cap DOMAIN models' = {}) \/ ~Update]_vars

\* update() has registered a model loaded in the background and another
\* load is still in flight
C38_Witness ==
    /\ in_flight_model_loads # {}
    /\ loaded_model_channel = <<>>
    /\ pending_model_loads = {}
    /\ \E path \in DOMAIN models :
          /\ path \in ModelPathInputs
          /\ LoadedTexture(path) \in textures
          /\ path # INITIAL_MODEL_PATH

(***************************************************************************)
(* The lights load_world leaves                                            *)
(***************************************************************************)
\* what load_world(data) leaves of the lights of data
LightsLoaded(data) ==
    LET n == Len(data.lights)
        kept == Min(n, MAX_LIGHTS)
    IN /\ num_lights(light_manager') = kept
       /\ \A i \in Slots : is_active(light_manager', i) <=> i < kept
       /\ \A i \in 0 .. kept - 1 :
             light_manager'.lights[i] =
                 MakeLight(data.lights[i + 1].position, data.lights[i + 1].color)
       /\ ~light_manager'.dirty
       /\ light_buffer'.written
       /\ light_buffer'.contents.num_lights = kept
       /\ \A i \in Slots :
             light_buffer'.contents.lights[i] =
                 IF i < kept
                 THEN MakeLight(data.lights[i + 1].position, data.lights[i + 1].color)
                 ELSE DefaultLight

\* C39: load_world(data) with n lights leaves min(n, MAX_LIGHTS) active
\* lights in the slots 0 .. min(n, MAX_LIGHTS) - 1, data.lights[i] in slot
\* i, the lights beyond the tenth dropped, the dirty flag false and the
\* light buffer holding the new lights.
C39_LoadWorldLights ==
    [][\A data \in ManyLightWorlds : LightsLoaded(data) \/ ~LoadWorldOf({data})]_vars

\* load_world has read a world with more than MAX_LIGHTS lights: every
\* slot is active, the last holds the tenth light of the file
C39_Witness ==
    /\ num_lights(light_manager) = MAX_LIGHTS
    /\ light_manager.lights[MAX_LIGHTS - 1] = MakeLight(PosOf(MAX_LIGHTS), ColorOf(MAX_LIGHTS))
    /\ light_buffer.written
    /\ ~light_manager.dirty
    /\ asset_keys.light = LoadedLightAssets(
          CHOOSE data \in ManyLightWorlds : Len(data.lights) = MAX_LIGHTS + 1)

(***************************************************************************)
(* The names Add Grid and Add Sphere generate                              *)
(***************************************************************************)
\* C40: the name the button Add Grid or Add Sphere would generate,
\* Grid_<count> or Sphere_<count>, is not a key of the manager, so that an
\* add increases count() by one and overwrites no system.
C40_AddedNameIsFresh ==
    /\ GridName(manager_count(particle_system_manager))
           \notin DOMAIN particle_system_manager.grids
    /\ SphereName(manager_count(particle_system_manager))
           \notin DOMAIN particle_system_manager.spheres

\* an add or a remove of the panel changes count() by at most one, and the
\* systems an add leaves alone stay as they are
C40_AddsKeepOtherSystems ==
    [][/\ manager_count(particle_system_manager') - manager_count(particle_system_manager)
              \in {0 - 1, 0, 1}
       /\ manager_count(particle_system_manager') > manager_count(particle_system_manager) =>
             \A k \in Systems : k \in SystemKeys(particle_system_manager')
                                   /\ SystemAt(particle_system_manager', k) = Sys(k)]_vars

\* the manager holds Grid_1 alone, main having been removed: the button Add
\* Grid is about to generate the name Grid_1 again
C40_Witness ==
    /\ SystemKeys(particle_system_manager) = {<<"Grid", GridName(1)>>}
    /\ GridName(manager_count(particle_system_manager))
           \in DOMAIN particle_system_manager.grids
    /\ is_surface_configured

=============================================================================
